---- MODULE Spec2Model ----
(***************************************************************************)
(* Payment settlement and reconciliation engine of birthsalescore.         *)
(*                                                                         *)
(* The database rows the engine works on (one Payment, the vendor Wallets, *)
(* one Subscription, the Payout / PayoutItem rows of one Order) are the    *)
(* state.  Every handler is translated from its code; a handler that runs  *)
(* inside transaction.atomic() with the Payment row locked is one action,  *)
(* a handler that reads and writes without a lock is one action per        *)
(* database statement, working on the model instance it read earlier.      *)
(* Money is counted in minor units (integers).                             *)
(***************************************************************************)
EXTENDS Integers, FiniteSets, Sequences, Bags, TLC

\* ------------------------------------------------------------------ bounds
MaxAmount == 2        \* amounts of booking / subscription / cashout payments: 1..MaxAmount
MaxBalance == 1       \* initial wallet balances: 0..MaxBalance
NumPolls == 2         \* PayHub status-poll requests
MaxDay == 1           \* days that pass after the payment's first day
MaxFee == 1           \* delivery fee of the order: 0..MaxFee
MaxLedger == 9           \* largest balance and amount of a single wallet call
NumHooks == 2            \* webhook requests that arrive
MaxLimit == 2            \* largest --limit of a replay run
MaxAttempts == 2         \* largest --max-attempts of a replay run
NumOps == 2              \* concurrent wallet operations of different payments and payouts
NumFanouts == 3       \* concurrent create_payouts_for_order_payment calls

\* --------------------------------------------------------- program constants
SubscriptionDays == 30

None == "None"

\* Payment.objects.filter(payment_id=reference).first() when there is no row.
NoPayment == [payment_id |-> None]

PaymentStatus == [PENDING |-> "PENDING", SUCCESS |-> "SUCCESS", FAILED |-> "FAILED"]

PaymentStatusCode == [SUCCESS |-> "000", FAILED |-> "code_failed", PENDING |-> "code_pending"]

PaymentType == [DEBIT |-> "DEBIT", CREDIT |-> "CREDIT"]

PaymentMethod == [MOMO |-> "MOMO", PAYSTACK |-> "PAYSTACK"]

Vendors == {"v1", "v2"}

\* The vendors in the order fan-out visits them (dict insertion order).
VendorOrder == <<"v1", "v2">>

VARIABLES
    payment,        \* the Payment row, or NoPayment before it is created
    wallets,        \* vendor -> balance of the vendor's Wallet row, for the vendors that have one
    subscription,   \* the Subscription row: [start_date, end_date]
    order,          \* the Order: [items: id -> [vendor, price], delivery_fee_amount]
    payouts,        \* set of Payout rows
    payoutItems,    \* set of PayoutItem rows
    today,          \* timezone.localdate()
    polls,          \* PaymentStatusCheckAPI.get requests in flight
    pollsStarted,   \* how many status-poll requests have arrived
    momo,           \* the execute_momo_transaction call in flight
    balance0,       \* the wallet balances when the payment was created (history)
    fanout,         \* create_payouts_for_order_payment calls running without the row lock
    ledger,         \* one call of Wallet.debit_wallet / Wallet.credit_wallet: arguments and outcome
    ops,            \* wallet operations of different payments and payouts, running concurrently
    events,         \* the PaystackWebhookEvent rows, oldest first
    hook,           \* the PaystackWebhookAPI.post request in flight
    hooksStarted,   \* how many webhook requests have arrived
    replay,         \* the replay_paystack_webhooks run in flight
    verifyCalls,    \* how many times paystack_verify has been called (history)
    secret,         \* settings.PAYSTACK_SECRET_KEY
    approvals,      \* the payout approval requests of the admin endpoints, in flight or answered
    finalizes,      \* finalize_paystack_payment calls, statement by statement
    cashouts        \* VendorCashoutAPI requests, statement by statement

\* The variables of the wallet calls and of the admin's payout endpoints.
ledgerVars == <<ledger, ops, approvals>>

\* The calls followed statement by statement.
callVars == <<finalizes, cashouts>>

webhookVars == <<events, hook, hooksStarted, replay, verifyCalls, secret>>

vars == <<payment, wallets, subscription, order, payouts, payoutItems, today, polls, pollsStarted, momo, balance0, fanout, ledgerVars, callVars, webhookVars>>

\* The database as one value, so that nested calls compose.
DB == [payment |-> payment, wallets |-> wallets, subscription |-> subscription,
       order |-> order, payouts |-> payouts, payoutItems |-> payoutItems]

\* The outcome of a call: the database, the caller's model instance, and
\* whether an exception left the call.
Result(d, inst, raised) == [db |-> d, inst |-> inst, raised |-> raised]

\* ------------------------------------------------------------ Wallet model
credit_wallet(balance, amount) == balance + amount

debit_wallet_unchecked(balance, amount) == [ok |-> TRUE, balance |-> balance - amount]

debit_wallet_strictly_above(balance, amount) ==
    IF balance > amount
    THEN [ok |-> TRUE, balance |-> balance - amount]
    ELSE [ok |-> FALSE, balance |-> balance]

debit_wallet(balance, amount) ==
    IF balance >= amount
    THEN [ok |-> TRUE, balance |-> balance - amount]
    ELSE [ok |-> FALSE, balance |-> balance]

\* vendor.get_wallet() returns a row (otherwise None).
has_wallet(d, vendor) == vendor \in DOMAIN d.wallets

\* ------------------------------------------------------------- Order model
\* An OrderItem row with what it reads through its product: the product,
\* its vendor and its current price.  OrderItem.save() sets
\* price = product.price * quantity.
OrderLine(product, vendor, quantity, product_price) ==
    [product |-> product, vendor |-> vendor, quantity |-> quantity,
     product_price |-> product_price, price |-> product_price * quantity]

ItemIds(o) == DOMAIN o.items

RECURSIVE SumPrices(_, _)
SumPrices(o, ids) ==
    IF ids = {} THEN 0
    ELSE LET i == CHOOSE x \in ids : TRUE
         IN o.items[i].price + SumPrices(o, ids \ {i})

total_amount(o) == SumPrices(o, ItemIds(o)) + o.delivery_fee_amount

\* ------------------------------------------------- post_save hook of Payment
\* Runs after every save() that updates (not creates) a Payment row.
debit_credit_vendor_wallet(d, inst) ==
    IF inst.vendor_credited_debited
    THEN Result(d, inst, FALSE)
    ELSE IF inst.status_code = PaymentStatusCode.SUCCESS
         THEN IF inst.payment_type = PaymentType.CREDIT
              THEN \* instance.vendor.wallet: Vendor has no attribute 'wallet'
                   Result(d, inst, TRUE)
              ELSE IF inst.payment_type = "debit"
                   THEN \* instance.vendor.debit_wallet: no such method
                        Result(d, inst, TRUE)
                   ELSE LET marked == [inst EXCEPT !.vendor_credited_debited = TRUE]
                        IN Result([d EXCEPT !.payment = marked], marked, FALSE)
         ELSE Result(d, inst, FALSE)

\* The UPDATE statement of payment.save(): every column is written.
write_row(d, inst) == [d EXCEPT !.payment = inst]

\* payment.save() of an existing row inside one transaction: UPDATE, then the hook.
Payment_save(d, inst) == debit_credit_vendor_wallet(write_row(d, inst), inst)

\* ------------------------------------------------------ Payout fan-out
\* The order lines of vendor v (lines whose product has no vendor are skipped).
vendor_items(o, v) == {i \in ItemIds(o) : o.items[i].vendor = v}

\* A variant that gives every vendor the total of the whole order.
vendor_totals_of_whole_order(o, v) == SumPrices(o, ItemIds(o))

vendor_totals(o, v) == SumPrices(o, vendor_items(o, v))

NextId(rows) == Cardinality(rows) + 1

\* A variant without the lookup: a new row on every call.
get_or_create_payout_always_creates(ps, inst, v, total) ==
    [id |-> NextId(ps), order |-> inst.order, vendor |-> v,
     payment |-> inst.payment_id, amount |-> total,
     payment_status |-> inst.status, payout_status |-> "PENDING",
     is_settled |-> FALSE]

\* Payout.objects.get_or_create(order=order, vendor=vendor, defaults={...})
get_or_create_payout(ps, inst, v, total) ==
    LET found == {r \in ps : r.order = inst.order /\ r.vendor = v}
    IN IF found # {}
       THEN CHOOSE r \in found : \A q \in found : r.id <= q.id
       ELSE [id |-> NextId(ps), order |-> inst.order, vendor |-> v,
             payment |-> inst.payment_id, amount |-> total,
             payment_status |-> inst.status, payout_status |-> "PENDING",
             is_settled |-> FALSE]

\* A variant that adds the total to the stored amount instead of setting it.
refresh_payout_accumulates(row, inst, total) ==
    [row EXCEPT !.payment = inst.payment_id, !.payment_status = inst.status,
                !.amount = row.amount + total]

\* The refresh after get_or_create: payment link, payment_status and amount.
refresh_payout(row, inst, total) ==
    [row EXCEPT !.payment = inst.payment_id, !.payment_status = inst.status,
                !.amount = total]

\* The row PayoutItem.objects.get_or_create makes from its defaults.
new_payout_item(id, payoutId, o, i) ==
    [id |-> id, payout |-> payoutId, order_item |-> i,
     product |-> o.items[i].product, quantity |-> o.items[i].quantity,
     unit_price |-> o.items[i].product_price, line_total |-> o.items[i].price]

\* A variant that refreshes the row it finds (update_or_create).
get_or_create_payout_item_refreshes(pis, payoutId, o, i) ==
    LET found == {r \in pis : r.payout = payoutId /\ r.order_item = i}
    IN IF found # {}
       THEN (pis \ found) \cup {new_payout_item(r.id, payoutId, o, i) : r \in found}
       ELSE pis \cup {new_payout_item(NextId(pis), payoutId, o, i)}

\* PayoutItem.objects.get_or_create(payout=payout, order_item=oi, defaults={...})
get_or_create_payout_item(pis, payoutId, o, i) ==
    IF \E r \in pis : r.payout = payoutId /\ r.order_item = i
    THEN pis
    ELSE pis \cup {new_payout_item(NextId(pis), payoutId, o, i)}

RECURSIVE payout_items_loop(_, _, _, _)
payout_items_loop(pis, payoutId, o, ids) ==
    IF ids = {} THEN pis
    ELSE LET i == CHOOSE x \in ids : \A y \in ids : x <= y
         IN payout_items_loop(get_or_create_payout_item(pis, payoutId, o, i),
                              payoutId, o, ids \ {i})

\* One iteration of `for vendor_id, total in vendor_totals.items()`.
payout_for_vendor(d, inst, v) ==
    LET total == vendor_totals(d.order, v)
        got == get_or_create_payout(d.payouts, inst, v, total)
        saved == refresh_payout(got, inst, total)
    IN [d EXCEPT !.payouts = {r \in d.payouts : r.id # got.id} \cup {saved},
                 !.payoutItems = payout_items_loop(d.payoutItems, got.id, d.order,
                                                   vendor_items(d.order, v))]

RECURSIVE payouts_loop(_, _, _)
payouts_loop(d, inst, k) ==
    IF k > Len(VendorOrder) THEN d
    ELSE IF vendor_items(d.order, VendorOrder[k]) = {}
         THEN payouts_loop(d, inst, k + 1)
         ELSE payouts_loop(payout_for_vendor(d, inst, VendorOrder[k]), inst, k + 1)

create_payouts_for_order_payment(d, inst) ==
    IF inst.order = None THEN d
    ELSE IF inst.status_code # PaymentStatusCode.SUCCESS /\ inst.status # PaymentStatus.SUCCESS
         THEN d
         ELSE payouts_loop(d, inst, 1)

\* ------------------------------------------------ Idempotent effect applier
\* A variant that sets the flag of a cashout whatever debit_wallet returned.
apply_wallet_effect_marks_always(d, inst) ==
    IF inst.order = None /\ inst.vendor # None /\ ~inst.vendor_credited_debited
    THEN LET balance == d.wallets[inst.vendor]
         IN IF ~has_wallet(d, inst.vendor) THEN Result(d, inst, FALSE)
            ELSE IF inst.payment_type = PaymentType.DEBIT
                 THEN Result([d EXCEPT !.wallets[inst.vendor] = credit_wallet(balance, inst.amount)],
                             [inst EXCEPT !.vendor_credited_debited = TRUE], FALSE)
                 ELSE IF inst.payment_type = PaymentType.CREDIT
                      THEN LET r == debit_wallet(balance, inst.amount)
                           IN Result([d EXCEPT !.wallets[inst.vendor] = r.balance],
                                     [inst EXCEPT !.vendor_credited_debited = TRUE], FALSE)
                      ELSE Result(d, inst, FALSE)
    ELSE Result(d, inst, FALSE)

\* The wallet block of _apply_payment_success_effects_locked.
apply_wallet_effect(d, inst) ==
    IF inst.order = None /\ inst.vendor # None /\ ~inst.vendor_credited_debited
    THEN LET balance == d.wallets[inst.vendor]
         IN IF ~has_wallet(d, inst.vendor) THEN Result(d, inst, FALSE)
            ELSE IF inst.payment_type = PaymentType.DEBIT
                 THEN Result([d EXCEPT !.wallets[inst.vendor] = credit_wallet(balance, inst.amount)],
                             [inst EXCEPT !.vendor_credited_debited = TRUE], FALSE)
                 ELSE IF inst.payment_type = PaymentType.CREDIT
                      THEN LET r == debit_wallet(balance, inst.amount)
                           IN IF r.ok
                              THEN Result([d EXCEPT !.wallets[inst.vendor] = r.balance],
                                          [inst EXCEPT !.vendor_credited_debited = TRUE], FALSE)
                              ELSE Result(d, inst, FALSE)
                      ELSE Result(d, inst, FALSE)
    ELSE Result(d, inst, FALSE)

\* The subscription block of _apply_payment_success_effects_locked.
apply_subscription_effect(d, inst, day) ==
    IF inst.subscription # None /\ ~inst.subscription_effects_applied
    THEN Result([d EXCEPT !.subscription = [start_date |-> day,
                                            end_date |-> day + SubscriptionDays]],
                [inst EXCEPT !.subscription_effects_applied = TRUE], FALSE)
    ELSE Result(d, inst, FALSE)

\* A variant that chains the three blocks with else-if: one effect per payment.
_apply_payment_success_effects_locked_else_if(d, inst, day) ==
    IF inst.order # None
    THEN Payment_save(create_payouts_for_order_payment(d, inst), inst)
    ELSE IF inst.vendor # None /\ ~inst.vendor_credited_debited
         THEN LET r == apply_wallet_effect(d, inst) IN Payment_save(r.db, r.inst)
         ELSE LET r == apply_subscription_effect(d, inst, day) IN Payment_save(r.db, r.inst)

_apply_payment_success_effects_locked(d, inst, day) ==
    LET d1 == IF inst.order # None THEN create_payouts_for_order_payment(d, inst) ELSE d
        r2 == apply_wallet_effect(d1, inst)
        r3 == apply_subscription_effect(r2.db, r2.inst, day)
    IN Payment_save(r3.db, r3.inst)

\* apply_payment_success_effects(payment): the transaction that locks the row.
\* An exception rolls the transaction back and leaves the call.
apply_payment_success_effects(d, arg, day) ==
    IF arg.status # PaymentStatus.SUCCESS \/ arg.status_code # PaymentStatusCode.SUCCESS
    THEN Result(d, arg, FALSE)
    ELSE LET locked == d.payment
         IN IF locked = NoPayment THEN Result(d, arg, FALSE)
            ELSE IF locked.status # PaymentStatus.SUCCESS
                    \/ locked.status_code # PaymentStatusCode.SUCCESS
                 THEN Result(d, locked, FALSE)
                 ELSE LET r == _apply_payment_success_effects_locked(d, locked, day)
                      IN IF r.raised THEN Result(d, arg, TRUE) ELSE r

\* ------------------------------------------------ finalize_paystack_payment
\* The transaction of finalize_paystack_payment, for a verified gateway reply
\* whose data.status is status_text.
finalize_paystack_payment(d, status_text, day) ==
    LET row == d.payment
        already_success == row.status = PaymentStatus.SUCCESS
                           /\ row.status_code = PaymentStatusCode.SUCCESS
    IN IF row = NoPayment THEN Result(d, row, FALSE)
       ELSE IF already_success /\ status_text # "success" THEN Result(d, row, FALSE)
       ELSE IF status_text = "success"
            THEN LET inst == [row EXCEPT !.status = PaymentStatus.SUCCESS,
                                         !.status_code = PaymentStatusCode.SUCCESS]
                     saved == Payment_save(d, inst)
                     r == IF saved.raised THEN saved
                          ELSE _apply_payment_success_effects_locked(saved.db, saved.inst, day)
                 IN IF r.raised THEN Result(d, row, TRUE) ELSE r
            ELSE LET inst == IF status_text = "failed"
                             THEN [row EXCEPT !.status = PaymentStatus.FAILED,
                                              !.status_code = PaymentStatusCode.FAILED]
                             ELSE [row EXCEPT !.status = PaymentStatus.PENDING,
                                              !.status_code = PaymentStatusCode.PENDING]
                     r == Payment_save(d, inst)
                 IN IF r.raised THEN Result(d, row, TRUE) ELSE r

\* ------------------------------------------------------------ state machine
NewPayment(method, o, b, sub, v, type, amount, st, code) ==
    [payment_id |-> "abc123", payment_method |-> method,
     order |-> o, booking |-> b, subscription |-> sub,
     vendor |-> v, payment_type |-> type, amount |-> amount, status |-> st,
     status_code |-> code, vendor_credited_debited |-> FALSE,
     subscription_effects_applied |-> FALSE]

\* The orders a customer can have placed: two lines, the second one of the same
\* vendor, of another vendor, or of a product without vendor; and a delivery fee.
Orders ==
    {[items |-> (1 :> OrderLine("p1", "v1", 1, 3) @@ 2 :> OrderLine("p2", v, 2, 1)),
      delivery_fee_amount |-> fee] : v \in Vendors \cup {None}, fee \in 0..MaxFee}

NoOrder == [items |-> <<>>, delivery_fee_amount |-> 0]

IdleMomo == [pc |-> "idle"]

\* No wallet call, no concurrent wallet operation.
IdleLedger ==
    /\ ledger = [pc |-> "idle"]
    /\ ops = <<>>
    /\ approvals = <<>>

\* No call followed statement by statement.
IdleCalls ==
    /\ finalizes = <<>>
    /\ cashouts = <<>>

\* No webhook event stored, no webhook request, no replay run.
IdleWebhook ==
    /\ events = <<>>
    /\ hook = [pc |-> "idle"]
    /\ hooksStarted = 0
    /\ replay = [pc |-> "idle"]
    /\ verifyCalls = 0
    /\ secret = None

Init ==
    /\ payment = NoPayment
    /\ wallets \in {[v \in Vendors |-> IF v = "v1" THEN b ELSE 0] : b \in 0..MaxBalance}
    /\ subscription = [start_date |-> 0, end_date |-> SubscriptionDays]
    /\ order = NoOrder
    /\ payouts = {}
    /\ payoutItems = {}
    /\ today = 1
    /\ polls = EmptyBag
    /\ pollsStarted = 0
    /\ momo = IdleMomo
    /\ balance0 = wallets
    /\ fanout = <<>>
    /\ IdleLedger
    /\ IdleWebhook
    /\ IdleCalls

\* The database after a call.
Commit(d) ==
    /\ payment' = d.payment
    /\ wallets' = d.wallets
    /\ subscription' = d.subscription
    /\ order' = d.order
    /\ payouts' = d.payouts
    /\ payoutItems' = d.payoutItems

\* MakePaystackPaymentAPI.post followed by initiate_paystack_payment: the request
\* names any of a subscription, an order and a booking.
MakePaystackPayment(hasSub, hasOrder, hasBooking, o, price) ==
        LET viewVendor == IF hasSub THEN "v1"
                          ELSE IF hasOrder THEN None
                          ELSE IF hasBooking THEN "v1" ELSE None
            amount == IF hasOrder THEN total_amount(o) ELSE price
        IN /\ payment = NoPayment
           /\ momo.pc = "idle"
           /\ ~(viewVendor = None /\ ~hasOrder)
           /\ amount > 0
           /\ payment' = NewPayment(PaymentMethod.PAYSTACK,
                                    IF hasOrder THEN "o1" ELSE None,
                                    IF hasBooking THEN "b1" ELSE None,
                                    IF hasSub THEN "s1" ELSE None,
                                    IF hasOrder THEN None ELSE viewVendor,
                                    PaymentType.DEBIT, amount,
                                    PaymentStatus.PENDING, None)
           /\ order' = IF hasOrder THEN o ELSE order
           /\ UNCHANGED <<wallets, subscription, payouts, payoutItems, today, polls, pollsStarted, momo, balance0, fanout, ledgerVars, callVars, webhookVars>>

MakePaystackPaymentAPI_post ==
    \E hasSub \in BOOLEAN, hasOrder \in BOOLEAN, hasBooking \in BOOLEAN,
       o \in Orders, price \in 1..MaxAmount :
        MakePaystackPayment(hasSub, hasOrder, hasBooking, o, price)

\* finalize_paystack_payment(reference), as PaymentCallbackAPI and PaystackVerifyAPI
\* call it, with the status the gateway reports.  The gateway knows the
\* references it issued: for any other, verification fails and nothing is written.
Finalize(status_text) ==
    /\ payment # NoPayment
    /\ payment.payment_method = PaymentMethod.PAYSTACK
    /\ Commit(finalize_paystack_payment(DB, status_text, today).db)
    /\ UNCHANGED <<today, polls, pollsStarted, momo, balance0, fanout, ledgerVars, callVars, webhookVars>>

FinalizePaystack == \E status_text \in {"success", "failed", "abandoned"} : Finalize(status_text)

\* timezone.localdate() moves on.
Tick ==
    /\ today <= MaxDay
    /\ today' = today + 1
    /\ UNCHANGED <<payment, wallets, subscription, order, payouts, payoutItems, polls, pollsStarted, momo, balance0, fanout, ledgerVars, callVars, webhookVars>>

\* ---- execute_momo_transaction, statement by statement
ProviderCodes == {PaymentStatusCode.SUCCESS, PaymentStatusCode.FAILED, "unknown"}

MomoAt(pc, inst, balance) == [pc |-> pc, inst |-> inst, balance |-> balance]

MomoDone == [pc |-> "done"]

\* can_cashout(request, amount) of VendorCashoutAPI.post
can_cashout(d, vendor, amount) == has_wallet(d, vendor) /\ d.wallets[vendor] >= amount

\* The call up to Payment.objects.create: the vendor's wallet is read, the
\* provider is asked and polled, the row is created with what it answered.
\* kind: a cashout (VendorCashoutAPI), or the order, booking or subscription
\* paid for (MakePaymentAPI, SubscriptionRenewalAPIView).
MomoCreate ==
    \E kind \in {"cashout", "order", "booking", "subscription"},
       o \in Orders, price \in 1..MaxAmount, code \in ProviderCodes :
        LET vendor == IF kind = "order" THEN None ELSE "v1"
            amount == IF kind = "order" THEN total_amount(o) ELSE price
            transaction_is_successful == code = PaymentStatusCode.SUCCESS
            row == NewPayment(PaymentMethod.MOMO,
                              IF kind = "order" THEN "o1" ELSE None,
                              IF kind = "booking" THEN "b1" ELSE None,
                              IF kind = "subscription" THEN "s1" ELSE None,
                              vendor,
                              IF kind = "cashout" THEN PaymentType.CREDIT
                                                  ELSE PaymentType.DEBIT,
                              amount,
                              IF transaction_is_successful THEN PaymentStatus.SUCCESS
                                                           ELSE PaymentStatus.PENDING,
                              code)
        IN /\ payment = NoPayment
           /\ momo.pc = "idle"
           /\ kind = "cashout" => can_cashout(DB, vendor, amount)
           /\ amount > 0
           /\ payment' = row
           /\ order' = IF kind = "order" THEN o ELSE order
           /\ momo' = IF transaction_is_successful
                      THEN MomoAt("effects", row,
                                  IF vendor # None /\ has_wallet(DB, vendor)
                                  THEN wallets[vendor] ELSE 0)
                      ELSE MomoDone
           /\ UNCHANGED <<wallets, subscription, payouts, payoutItems, today, polls, pollsStarted, balance0, fanout, ledgerVars, callVars, webhookVars>>

\* The wallet statement after a successful transaction: wallet.debit_wallet or
\* wallet.credit_wallet on the Wallet instance read at the start, or the
\* payout fan-out of an order payment.
MomoEffects ==
    /\ momo.pc = "effects"
    /\ LET inst == momo.inst
           marked == [inst EXCEPT !.vendor_credited_debited = TRUE]
       IN IF inst.payment_type = PaymentType.CREDIT
          THEN LET r == debit_wallet(momo.balance, inst.amount)
               IN /\ wallets' = IF r.ok THEN [wallets EXCEPT ![inst.vendor] = r.balance]
                                        ELSE wallets
                  /\ momo' = IF r.ok THEN MomoAt("save", marked, r.balance) ELSE MomoDone
                  /\ UNCHANGED <<payment, subscription, order, payouts, payoutItems>>
          ELSE IF inst.order # None
               THEN /\ Commit(create_payouts_for_order_payment(DB, inst))
                    /\ momo' = MomoDone
               ELSE IF has_wallet(DB, inst.vendor)
                    THEN /\ wallets' = [wallets EXCEPT ![inst.vendor] =
                                            credit_wallet(momo.balance, inst.amount)]
                         /\ momo' = MomoAt("save", marked, momo.balance)
                         /\ UNCHANGED <<payment, subscription, order, payouts, payoutItems>>
                    ELSE /\ momo' = MomoDone
                         /\ UNCHANGED <<payment, wallets, subscription, order, payouts, payoutItems>>
    /\ UNCHANGED <<today, polls, pollsStarted, balance0, fanout, ledgerVars, callVars, webhookVars>>

\* transaction.save() after the wallet statement.
MomoSave ==
    /\ momo.pc = "save"
    /\ Commit(Payment_save(DB, momo.inst).db)
    /\ momo' = MomoDone
    /\ UNCHANGED <<today, polls, pollsStarted, balance0, fanout, ledgerVars, callVars, webhookVars>>

\* ---- PaymentStatusCheckAPI.get, statement by statement
\* The requests in flight are a bag of [pc, inst, code]: the statement the
\* request is at, the Payment instance it holds, the provider's answer.
PollAt(pc, inst, code) == [pc |-> pc, inst |-> inst, code |-> code]

Put(bag, r) == bag (+) SetToBag({r})

Take(bag, r) == bag (-) SetToBag({r})

\* Payment.objects.filter(...).first() and the provider's answer.
PollRead ==
    \E code \in ProviderCodes :
        /\ pollsStarted < NumPolls
        /\ payment # NoPayment
        /\ polls' = Put(polls, PollAt("read", payment, code))
        /\ pollsStarted' = pollsStarted + 1
        /\ UNCHANGED <<payment, wallets, subscription, order, payouts, payoutItems, today, momo, balance0, fanout, ledgerVars, callVars, webhookVars>>

is_success(inst) ==
    inst.status = PaymentStatus.SUCCESS /\ inst.status_code = PaymentStatusCode.SUCCESS

\* The status the handler gives its instance before payment.save().
normalize(inst, provider_code) ==
    LET already_success == is_success(inst)
    IN IF provider_code = PaymentStatusCode.SUCCESS
       THEN [inst EXCEPT !.status = PaymentStatus.SUCCESS,
                         !.status_code = PaymentStatusCode.SUCCESS]
       ELSE IF provider_code = PaymentStatusCode.FAILED
            THEN IF ~already_success
                 THEN [inst EXCEPT !.status = PaymentStatus.FAILED,
                                   !.status_code = PaymentStatusCode.FAILED]
                 ELSE inst
            ELSE IF ~already_success
                 THEN [inst EXCEPT !.status = PaymentStatus.PENDING,
                                   !.status_code = PaymentStatusCode.PENDING]
                 ELSE inst

\* Where the request goes after a save() whose hook has returned.
AfterSave(bag, inst, code) ==
    IF is_success(inst) THEN Put(bag, PollAt("apply", inst, code)) ELSE bag

\* payment.save(): the UPDATE of the whole row from the handler's instance.
PollSaveOf(r) ==
    /\ r \in BagToSet(polls)
    /\ r.pc = "read"
    /\ LET inst == normalize(r.inst, r.code)
       IN /\ payment' = write_row(DB, inst).payment
          /\ polls' = IF ~inst.vendor_credited_debited /\ inst.status_code = PaymentStatusCode.SUCCESS
                      THEN Put(Take(polls, r), PollAt("hook", inst, r.code))
                      ELSE AfterSave(Take(polls, r), inst, r.code)
    /\ UNCHANGED <<wallets, subscription, order, payouts, payoutItems, today, pollsStarted, momo, balance0, fanout, ledgerVars, callVars, webhookVars>>

\* The post_save hook of that save(); an exception ends the request.
PollHookOf(r) ==
    /\ r \in BagToSet(polls)
    /\ r.pc = "hook"
    /\ LET h == debit_credit_vendor_wallet(DB, r.inst)
       IN IF h.raised
          THEN /\ polls' = Take(polls, r)
               /\ UNCHANGED <<payment, wallets, subscription, order, payouts, payoutItems>>
          ELSE /\ Commit(h.db)
               /\ polls' = AfterSave(Take(polls, r), h.inst, r.code)
    /\ UNCHANGED <<today, pollsStarted, momo, balance0, fanout, ledgerVars, callVars, webhookVars>>

\* apply_payment_success_effects(payment); an exception is swallowed.
PollApplyOf(r) ==
    /\ r \in BagToSet(polls)
    /\ r.pc = "apply"
    /\ Commit(apply_payment_success_effects(DB, r.inst, today).db)
    /\ polls' = Take(polls, r)
    /\ UNCHANGED <<today, pollsStarted, momo, balance0, fanout, ledgerVars, callVars, webhookVars>>

PollSave == \E r \in BagToSet(polls) : PollSaveOf(r)

PollHook == \E r \in BagToSet(polls) : PollHookOf(r)

PollApply == \E r \in BagToSet(polls) : PollApplyOf(r)

Next ==
    \/ MakePaystackPaymentAPI_post
    \/ FinalizePaystack
    \/ MomoCreate
    \/ MomoEffects
    \/ MomoSave
    \/ Tick
    \/ PollRead
    \/ PollSave
    \/ PollHook
    \/ PollApply

Spec == Init /\ [][Next]_vars

\* The process running execute_momo_transaction dies after the row was created
\* and before the function returns.  The function opens no transaction, so
\* every statement already executed is committed and nothing is undone.
MomoCrash ==
    /\ momo.pc \in {"effects", "save"}
    /\ momo' = [pc |-> "crashed"]
    /\ UNCHANGED <<payment, wallets, subscription, order, payouts, payoutItems, today, polls, pollsStarted, balance0, fanout, ledgerVars, callVars, webhookVars>>

NextCrash ==
    \/ Next
    \/ MomoCrash

SpecCrash == Init /\ [][NextCrash]_vars

\* ---- create_payouts_for_order_payment, statement by statement
\* The function takes no lock of its own: execute_momo_transaction calls it
\* outside any transaction, the effect applier inside the row lock.  Here
\* NumFanouts calls run on the same SUCCESS order payment with no lock at all.
NoPayout == [id |-> 0]

FanoutAt(pc, k, held, left) == [pc |-> pc, k |-> k, held |-> held, left |-> left]

\* The next vendor at or after position k that has lines in vendor_totals.
RECURSIVE NextVendor(_, _)
NextVendor(o, k) ==
    IF k > Len(VendorOrder) THEN k
    ELSE IF vendor_items(o, VendorOrder[k]) # {} THEN k
    ELSE NextVendor(o, k + 1)

\* Where a call stands when it turns to the vendor at or after position k.
FanoutTurnTo(o, k) ==
    IF NextVendor(o, k) > Len(VendorOrder)
    THEN FanoutAt("done", NextVendor(o, k), NoPayout, {})
    ELSE FanoutAt("get", NextVendor(o, k), NoPayout, {})

InitFanout ==
    /\ \E o \in Orders :
        /\ order = o
        /\ payment = NewPayment(PaymentMethod.MOMO, "o1", None, None, None, PaymentType.DEBIT,
                                total_amount(o), PaymentStatus.SUCCESS,
                                PaymentStatusCode.SUCCESS)
        /\ momo = MomoAt("effects", payment, 0)
    /\ wallets \in {[v \in Vendors |-> IF v = "v1" THEN b ELSE 0] : b \in 0..MaxBalance}
    /\ subscription = [start_date |-> 0, end_date |-> SubscriptionDays]
    /\ payouts = {}
    /\ payoutItems = {}
    /\ today = 1
    /\ polls = EmptyBag
    /\ pollsStarted = 0
    /\ balance0 = wallets
    /\ fanout = [w \in 1..NumFanouts |-> FanoutAt("start", 1, NoPayout, {})]
    /\ IdleLedger
    /\ IdleWebhook
    /\ IdleCalls

\* The guards and the loop over order.items that fills vendor_totals and vendor_items.
FanoutStart ==
    \E w \in DOMAIN fanout :
        /\ fanout[w].pc = "start"
        /\ fanout' = [fanout EXCEPT ![w] =
                        IF payment.order = None
                           \/ (payment.status_code # PaymentStatusCode.SUCCESS
                               /\ payment.status # PaymentStatus.SUCCESS)
                        THEN FanoutAt("done", 1, NoPayout, {})
                        ELSE FanoutTurnTo(order, 1)]
        /\ UNCHANGED <<payment, wallets, subscription, order, payouts, payoutItems, today, polls, pollsStarted, momo, balance0, ledgerVars, callVars, webhookVars>>

\* Payout.objects.get_or_create(order=order, vendor=vendor, defaults=...): the
\* unique constraint on (order, vendor) makes it one row whoever comes first.
FanoutGetOrCreate ==
    \E w \in DOMAIN fanout :
        /\ fanout[w].pc = "get"
        /\ LET v == VendorOrder[fanout[w].k]
               got == get_or_create_payout(payouts, payment, v, vendor_totals(order, v))
           IN /\ payouts' = payouts \cup {got}
              /\ fanout' = [fanout EXCEPT ![w] = FanoutAt("save", fanout[w].k, got, {})]
        /\ UNCHANGED <<payment, wallets, subscription, order, payoutItems, today, polls, pollsStarted, momo, balance0, ledgerVars, callVars, webhookVars>>

\* payout.save() after the refresh of payment, payment_status and amount: the
\* whole row is written from the instance the call holds.
FanoutSave ==
    \E w \in DOMAIN fanout :
        /\ fanout[w].pc = "save"
        /\ LET v == VendorOrder[fanout[w].k]
               saved == refresh_payout(fanout[w].held, payment, vendor_totals(order, v))
           IN /\ payouts' = {r \in payouts : r.id # saved.id} \cup {saved}
              /\ fanout' = [fanout EXCEPT ![w] =
                              FanoutAt("item", fanout[w].k, saved, vendor_items(order, v))]
        /\ UNCHANGED <<payment, wallets, subscription, order, payoutItems, today, polls, pollsStarted, momo, balance0, ledgerVars, callVars, webhookVars>>

\* PayoutItem.objects.get_or_create(payout=payout, order_item=oi, defaults=...)
\* for the next line of the vendor; after the last one, the next vendor.
FanoutItem ==
    \E w \in DOMAIN fanout :
        /\ fanout[w].pc = "item"
        /\ LET left == fanout[w].left
               i == CHOOSE x \in left : \A y \in left : x <= y
           IN /\ payoutItems' = get_or_create_payout_item(payoutItems, fanout[w].held.id, order, i)
              /\ fanout' = [fanout EXCEPT ![w] =
                              IF left = {i}
                              THEN FanoutTurnTo(order, fanout[w].k + 1)
                              ELSE FanoutAt("item", fanout[w].k, fanout[w].held, left \ {i})]
        /\ UNCHANGED <<payment, wallets, subscription, order, payouts, today, polls, pollsStarted, momo, balance0, ledgerVars, callVars, webhookVars>>

NextFanout ==
    \/ FanoutStart
    \/ FanoutGetOrCreate
    \/ FanoutSave
    \/ FanoutItem

SpecFanout == InitFanout /\ [][NextFanout]_vars

\* --------------------------------------------- one call on a Wallet instance
\* A Wallet row with balance B and a call with an amount; nothing else runs.
IdleCore ==
    /\ payment = NoPayment
    /\ subscription = [start_date |-> 0, end_date |-> SubscriptionDays]
    /\ order = NoOrder
    /\ payouts = {}
    /\ payoutItems = {}
    /\ today = 1
    /\ polls = EmptyBag
    /\ pollsStarted = 0
    /\ momo = IdleMomo
    /\ balance0 = wallets
    /\ fanout = <<>>

coreVars == <<payment, subscription, order, payouts, payoutItems, today, polls, pollsStarted, momo, balance0, fanout>>

LedgerAt(pc, B, amount, returned) == [pc |-> pc, B |-> B, amount |-> amount, returned |-> returned]

InitWallet ==
    /\ \E B \in 0..MaxLedger, amount \in 0..MaxLedger :
        /\ wallets = [v \in Vendors |-> IF v = "v1" THEN B ELSE 0]
        /\ ledger = LedgerAt("call", B, amount, None)
    /\ ops = <<>>
    /\ approvals = <<>>
    /\ IdleCore
    /\ IdleWebhook
    /\ IdleCalls

\* wallet.debit_wallet(amount): the row is saved when the balance covers the amount.
WalletDebit ==
    /\ ledger.pc = "call"
    /\ LET r == debit_wallet(wallets["v1"], ledger.amount)
       IN /\ wallets' = [wallets EXCEPT !["v1"] = r.balance]
          /\ ledger' = LedgerAt("debited", ledger.B, ledger.amount, r.ok)
    /\ UNCHANGED <<coreVars, ops, approvals, callVars, webhookVars>>

\* wallet.credit_wallet(amount): the row is saved, the call returns None.
WalletCredit ==
    /\ ledger.pc = "call"
    /\ wallets' = [wallets EXCEPT !["v1"] = credit_wallet(wallets["v1"], ledger.amount)]
    /\ ledger' = LedgerAt("credited", ledger.B, ledger.amount, None)
    /\ UNCHANGED <<coreVars, ops, approvals, callVars, webhookVars>>

NextWallet ==
    \/ WalletDebit
    \/ WalletCredit

SpecWallet == InitWallet /\ [][NextWallet]_vars

\* ------------------- wallet operations of different payments, running together
\* Each operation belongs to its own Payment or Payout row, so no row lock orders
\* them; all of them work on vendor v1's Wallet row, which nothing locks.
\*   settlement: the applier on a SUCCESS payment of type DEBIT (wallet credit)
\*   cashout:    the applier, or execute_momo_transaction, on a payment of type
\*               CREDIT (wallet debit)
\*   approval:   ApprovePayoutAPIView.post on an unsettled payout (wallet credit)
OpAt(pc, kind, amount, balance, ok) ==
    [pc |-> pc, kind |-> kind, amount |-> amount, balance |-> balance, ok |-> ok]

InitLedger ==
    /\ wallets \in {[v \in Vendors |-> IF v = "v1" THEN b ELSE 0] : b \in 0..MaxBalance}
    /\ ops \in [1..NumOps -> {OpAt("start", kind, amount, 0, FALSE) :
                                 kind \in {"settlement", "cashout", "approval"}, amount \in 1..MaxAmount}]
    /\ ledger = [pc |-> "idle"]
    /\ approvals = <<>>
    /\ IdleCore
    /\ IdleWebhook
    /\ IdleCalls

\* wallet = vendor.get_wallet(): the Wallet instance holds the balance read now.
OpGetWallet ==
    \E k \in DOMAIN ops :
        /\ ops[k].pc = "start"
        /\ ops' = [ops EXCEPT ![k] = OpAt("wallet", @.kind, @.amount, wallets["v1"], FALSE)]
        /\ UNCHANGED <<wallets, coreVars, ledger, approvals, callVars, webhookVars>>

\* wallet.credit_wallet(amount) or wallet.debit_wallet(amount) on that instance:
\* self.balance is changed and the whole row is saved.
OpWallet ==
    \E k \in DOMAIN ops :
        /\ ops[k].pc = "wallet"
        /\ IF ops[k].kind = "cashout"
           THEN LET r == debit_wallet(ops[k].balance, ops[k].amount)
                IN /\ wallets' = IF r.ok THEN [wallets EXCEPT !["v1"] = r.balance] ELSE wallets
                   /\ ops' = [ops EXCEPT ![k] = OpAt("done", @.kind, @.amount, r.balance, r.ok)]
           ELSE LET b == credit_wallet(ops[k].balance, ops[k].amount)
                IN /\ wallets' = [wallets EXCEPT !["v1"] = b]
                   /\ ops' = [ops EXCEPT ![k] = OpAt("done", @.kind, @.amount, b, TRUE)]
        /\ UNCHANGED <<coreVars, ledger, approvals, callVars, webhookVars>>

NextLedger ==
    \/ OpGetWallet
    \/ OpWallet

SpecLedger == InitLedger /\ [][NextLedger]_vars

\* ------------------------------------------------------- Paystack webhook
\* The reference every request of the model carries: the payment_id of the
\* one Payment row.
Reference == "abc123"

allowed_events == {"charge.success", "charge.failed", "transaction.success", "transaction.failed"}

\* The raw request bodies that arrive, by name.
Bodies == {"known", "unknown", "absent", "empty", "noref", "garbage"}

\* json.loads(raw_body) followed by payload.get('event') and
\* (payload.get('data') or {}).get('reference').
json_loads(body) ==
    [ok |-> body # "garbage",
     event |-> CASE body = "known" -> "charge.success"
                 [] body = "noref" -> "charge.success"
                 [] body = "unknown" -> "subscription.create"
                 [] body = "empty" -> ""
                 [] OTHER -> None,
     reference |-> IF body \in {"noref", "garbage"} THEN None ELSE Reference]

\* hmac.new(key, msg, sha512).hexdigest(): a digest names its key and its
\* message, and two digests are equal only when both are.
hmac_sha512(key, msg) == <<key, msg>>

\* The x-paystack-signature header is absent.
NoSignature == <<>>

\* The keys a sender may sign with: the gateway's, and another one.
SenderKeys == {"sk_live", "sk_other"}

\* A variant that accepts any digest made over the body, whatever the key.
signature_matches_any_key(key, raw_body, signature) ==
    \E k \in SenderKeys : hmac_sha512(k, raw_body) = signature

\* hmac.compare_digest(computed, str(signature))
signature_matches(key, raw_body, signature) == hmac_sha512(key, raw_body) = signature

\* Payment.objects.filter(payment_id=reference).exists()
payment_exists(d, reference) ==
    d.payment # NoPayment /\ d.payment.payment_id = reference

\* A variant that stores the row as already processed.
NewEvent_processed(id, event, reference, signature, payload) ==
    [id |-> id, event |-> event, reference |-> reference, signature |-> signature,
     payload |-> payload, processed |-> TRUE, attempts |-> 0,
     last_error |-> None, processed_at |-> None]

\* A PaystackWebhookEvent row as objects.create(...) stores it.
NewEvent(id, event, reference, signature, payload) ==
    [id |-> id, event |-> event, reference |-> reference, signature |-> signature,
     payload |-> payload, processed |-> FALSE, attempts |-> 0,
     last_error |-> None, processed_at |-> None]

\* What the gateway's verify endpoint may do: answer with a transaction status,
\* answer without status or data, or fail (requests.get or resp.json() raises).
VerifyOutcomes == {"success", "failed", "abandoned", "no_data", "raise"}

\* finalize_paystack_payment(reference) as a caller sees it: the database
\* after the call, whether an exception left it, and the returned dict.
FinalizeResult(d, raised, status_text, api_status) ==
    [db |-> d, raised |-> raised, status |-> status_text, api_status |-> api_status]

\* A variant that writes the payment FAILED when the verification is unsuccessful.
finalize_call_fails_payment(d, reference, verify, day) ==
    IF verify = "raise" THEN FinalizeResult(d, TRUE, None, 500)
    ELSE IF ~payment_exists(d, reference) THEN FinalizeResult(d, FALSE, "failed", 404)
    ELSE IF verify = "no_data"
         THEN FinalizeResult([d EXCEPT !.payment.status = PaymentStatus.FAILED,
                                       !.payment.status_code = PaymentStatusCode.FAILED],
                             FALSE, "failed", 400)
    ELSE LET r == finalize_paystack_payment(d, verify, day)
         IN IF r.raised THEN FinalizeResult(d, TRUE, None, 500)
            ELSE FinalizeResult(r.db, FALSE, r.inst.status, 200)

finalize_call(d, reference, verify, day) ==
    IF verify = "raise" THEN FinalizeResult(d, TRUE, None, 500)
    ELSE IF ~payment_exists(d, reference) THEN FinalizeResult(d, FALSE, "failed", 404)
    ELSE IF verify = "no_data" THEN FinalizeResult(d, FALSE, "failed", 400)
    ELSE LET r == finalize_paystack_payment(d, verify, day)
         IN IF r.raised THEN FinalizeResult(d, TRUE, None, 500)
            ELSE FinalizeResult(r.db, FALSE, r.inst.status, 200)

\* The part of the returned dict the callers read.
ResultOf(f) == [status |-> f.status, api_status |-> f.api_status]

NoResult == [status |-> None, api_status |-> 0]

\* The request in flight: the statement it is at, what it carries, and the
\* response once it has one.
HookAt(pc, body, signature, result) ==
    [pc |-> pc, body |-> body, signature |-> signature, result |-> result,
     status |-> 0, answer |-> None]

HookDone(body, signature, status, answer) ==
    [pc |-> "done", body |-> body, signature |-> signature, result |-> NoResult,
     status |-> status, answer |-> answer]

\* PaystackWebhookAPI.post up to the lookup of the local Payment: signature,
\* secret, digest, JSON, reference and event checks.
HookReceive ==
    \E body \in Bodies, signature \in {NoSignature} \cup {hmac_sha512(k, b) : k \in SenderKeys, b \in Bodies} :
        LET payload == json_loads(body)
            event == payload.event
        IN /\ hook.pc \in {"idle", "done"}
           /\ hooksStarted < NumHooks
           /\ hooksStarted' = hooksStarted + 1
           /\ hook' =
                IF signature = NoSignature
                THEN HookDone(body, signature, 400, "Missing x-paystack-signature")
                ELSE IF secret = None
                THEN HookDone(body, signature, 500, "Paystack secret key not configured")
                ELSE IF ~signature_matches(secret, body, signature)
                THEN HookDone(body, signature, 401, "Invalid signature")
                ELSE IF ~payload.ok
                THEN HookDone(body, signature, 400, "Invalid JSON")
                ELSE IF payload.reference = None
                THEN HookDone(body, signature, 200, "ignored")
                ELSE IF event \notin {None, ""} /\ event \notin allowed_events
                THEN HookDone(body, signature, 200, "ignored")
                ELSE IF ~payment_exists(DB, payload.reference)
                THEN HookAt("create", body, signature, NoResult)
                ELSE HookAt("finalize", body, signature, NoResult)
           /\ UNCHANGED <<wallets, coreVars, ledgerVars, callVars, events, replay, verifyCalls, secret>>

\* PaystackWebhookEvent.objects.create(...) for a reference without local
\* Payment; the INSERT may fail.
HookCreate ==
    \E persisted \in BOOLEAN :
        LET payload == json_loads(hook.body)
            row == NewEvent(Len(events) + 1, payload.event, payload.reference,
                            hook.signature, hook.body)
        IN /\ hook.pc = "create"
           /\ events' = IF persisted THEN Append(events, row) ELSE events
           /\ hook' = IF persisted
                      THEN HookDone(hook.body, hook.signature, 200, "queued")
                      ELSE HookDone(hook.body, hook.signature, 500, "Could not record webhook")
           /\ UNCHANGED <<wallets, coreVars, ledgerVars, callVars, hooksStarted, replay, verifyCalls, secret>>

\* result = finalize_paystack_payment(reference); an exception is not caught
\* by the view and ends the request with a server error.
HookFinalize ==
    \E verify \in VerifyOutcomes :
        LET f == finalize_call(DB, json_loads(hook.body).reference, verify, today)
        IN /\ hook.pc = "finalize"
           /\ verifyCalls' = verifyCalls + 1
           /\ Commit(f.db)
           /\ hook' = IF f.raised
                      THEN HookDone(hook.body, hook.signature, 500, "error")
                      ELSE HookAt("mark", hook.body, hook.signature, ResultOf(f))
           /\ UNCHANGED <<today, polls, pollsStarted, momo, balance0, fanout, ledgerVars, callVars, events, hooksStarted, replay, secret>>

\* PaystackWebhookEvent.objects.filter(reference=..., processed=False).update(
\*     processed=True, processed_at=now, attempts=F('attempts') + 1, last_error=...)
mark_reference_processed(rows, reference, last_error) ==
    [i \in DOMAIN rows |->
        IF rows[i].reference = reference /\ ~rows[i].processed
        THEN [rows[i] EXCEPT !.processed = TRUE, !.processed_at = "now",
                             !.attempts = @ + 1, !.last_error = last_error]
        ELSE rows[i]]

\* The rest of the view: the server error for api_status >= 500, the update of
\* the queued events once the payment is terminal, the response.
HookMark ==
    /\ hook.pc = "mark"
    /\ IF hook.result.api_status >= 500
       THEN /\ hook' = HookDone(hook.body, hook.signature, 500, "error")
            /\ events' = events
       ELSE /\ hook' = HookDone(hook.body, hook.signature, 200, "ok")
            /\ events' = IF hook.result.status \in {PaymentStatus.SUCCESS, PaymentStatus.FAILED}
                         THEN mark_reference_processed(
                                  events, json_loads(hook.body).reference,
                                  IF hook.result.status = PaymentStatus.FAILED
                                  THEN "Terminal FAILED reconciliation" ELSE None)
                         ELSE events
    /\ UNCHANGED <<wallets, coreVars, ledgerVars, callVars, hooksStarted, replay, verifyCalls, secret>>

\* ------------------------------------------ replay_paystack_webhooks command
\* filter(processed=False, attempts__lt=max_attempts).order_by('created_at'):
\* the rows are kept oldest first, so the order is the one of the sequence.
\* A variant that leaves out the attempts filter comes first.
select_unprocessed(rows, max_attempts) ==
    SelectSeq(rows, LAMBDA e : ~e.processed)

select_queued(rows, max_attempts) ==
    SelectSeq(rows, LAMBDA e : ~e.processed /\ e.attempts < max_attempts)

\* The run in flight: its options, the rows it selected (as read then), the
\* position in the loop, what the last call returned, and the three counters.
ReplayAt(pc, limit, max_attempts, batch, i, result, flags, counts) ==
    [pc |-> pc, limit |-> limit, max_attempts |-> max_attempts, batch |-> batch,
     i |-> i, result |-> result, is_success |-> flags[1], is_failed |-> flags[2],
     processed |-> counts[1], skipped_missing_payment |-> counts[2], failed |-> counts[3]]

\* A variant in which a failed event ends the run.
ReplayContinue_stops_on_failure(r, counts) ==
    ReplayAt(IF r.i < Len(r.batch) /\ counts[3] = r.failed THEN "check" ELSE "done",
             r.limit, r.max_attempts, r.batch, r.i + 1, NoResult,
             <<FALSE, FALSE>>, counts)

\* 'continue', or the end of the loop body: the next selected row, or the end
\* of the run.
ReplayContinue(r, counts) ==
    ReplayAt(IF r.i < Len(r.batch) THEN "check" ELSE "done",
             r.limit, r.max_attempts, r.batch, r.i + 1, NoResult,
             <<FALSE, FALSE>>, counts)

\* The three counters of the command's summary line, added up.
CountsTotal(r) == r.processed + r.skipped_missing_payment + r.failed

\* A variant that also marks the row processed.
update_attempt_marks_processed(rows, evt, last_error) ==
    [i \in DOMAIN rows |->
        IF rows[i].id = evt.id
        THEN [rows[i] EXCEPT !.attempts = evt.attempts + 1, !.last_error = last_error,
                             !.processed = TRUE]
        ELSE rows[i]]

\* A variant that records the error without counting the attempt.
update_attempt_keeps_count(rows, evt, last_error) ==
    [i \in DOMAIN rows |->
        IF rows[i].id = evt.id
        THEN [rows[i] EXCEPT !.last_error = last_error]
        ELSE rows[i]]

\* PaystackWebhookEvent.objects.filter(id=evt.id).update(attempts=evt.attempts + 1,
\* last_error=...): attempts is computed from the row as the run selected it.
update_attempt(rows, evt, last_error) ==
    [i \in DOMAIN rows |->
        IF rows[i].id = evt.id
        THEN [rows[i] EXCEPT !.attempts = evt.attempts + 1, !.last_error = last_error]
        ELSE rows[i]]

\* ...update(processed=True, processed_at=now, attempts=evt.attempts + 1, last_error=...)
update_processed(rows, evt, last_error) ==
    [i \in DOMAIN rows |->
        IF rows[i].id = evt.id
        THEN [rows[i] EXCEPT !.processed = TRUE, !.processed_at = "now",
                             !.attempts = evt.attempts + 1, !.last_error = last_error]
        ELSE rows[i]]

\* handle() up to the loop: the options, the query, the early return.
ReplayStartWith(limit, max_attempts) ==
    LET rows == select_queued(events, max_attempts)
        batch == SubSeq(rows, 1, IF Len(rows) < limit THEN Len(rows) ELSE limit)
    IN /\ replay.pc \in {"idle", "done"}
       /\ replay' = ReplayAt(IF batch = <<>> THEN "done" ELSE "check",
                             limit, max_attempts, batch, 1, NoResult,
                             <<FALSE, FALSE>>, <<0, 0, 0>>)
       /\ UNCHANGED <<wallets, coreVars, ledgerVars, callVars, events, hook, hooksStarted, verifyCalls, secret>>

ReplayStart ==
    \E limit \in 1..MaxLimit, max_attempts \in 1..MaxAttempts :
        ReplayStartWith(limit, max_attempts)

\* if not Payment.objects.filter(payment_id=reference).exists()
ReplayCheck ==
    /\ replay.pc = "check"
    /\ replay' = [replay EXCEPT !.pc =
                    IF payment_exists(DB, replay.batch[replay.i].reference)
                    THEN "finalize" ELSE "missing"]
    /\ UNCHANGED <<wallets, coreVars, ledgerVars, callVars, events, hook, hooksStarted, verifyCalls, secret>>

\* The Payment is still missing: the attempt is counted and the row stays queued.
ReplayMissing ==
    /\ replay.pc = "missing"
    /\ events' = update_attempt(events, replay.batch[replay.i], "Payment still missing")
    /\ replay' = ReplayContinue(replay, <<replay.processed,
                                         replay.skipped_missing_payment + 1,
                                         replay.failed>>)
    /\ UNCHANGED <<wallets, coreVars, ledgerVars, callVars, hook, hooksStarted, verifyCalls, secret>>

\* try: result = finalize_paystack_payment(reference)
ReplayFinalizeWith(verify) ==
    LET f == finalize_call(DB, replay.batch[replay.i].reference, verify, today)
    IN /\ replay.pc = "finalize"
       /\ verifyCalls' = verifyCalls + 1
       /\ Commit(f.db)
       /\ replay' = [replay EXCEPT !.pc = IF f.raised THEN "error" ELSE "read",
                                   !.result = ResultOf(f)]
       /\ UNCHANGED <<today, polls, pollsStarted, momo, balance0, fanout, ledgerVars, callVars, events, hook, hooksStarted, secret>>

ReplayFinalize == \E verify \in VerifyOutcomes : ReplayFinalizeWith(verify)

\* except Exception as e: the attempt is counted with str(e).
ReplayError ==
    /\ replay.pc = "error"
    /\ events' = update_attempt(events, replay.batch[replay.i], "gateway error")
    /\ replay' = ReplayContinue(replay, <<replay.processed,
                                         replay.skipped_missing_payment,
                                         replay.failed + 1>>)
    /\ UNCHANGED <<wallets, coreVars, ledgerVars, callVars, hook, hooksStarted, verifyCalls, secret>>

\* payment = Payment.objects.filter(payment_id=reference).first() and the two flags.
ReplayRead ==
    /\ replay.pc = "read"
    /\ LET found == payment_exists(DB, replay.batch[replay.i].reference)
       IN replay' = [replay EXCEPT
                        !.pc = "mark",
                        !.is_success = found /\ payment.status = PaymentStatus.SUCCESS
                                       /\ payment.status_code = PaymentStatusCode.SUCCESS,
                        !.is_failed = found /\ payment.status = PaymentStatus.FAILED
                                      /\ payment.status_code = PaymentStatusCode.FAILED]
    /\ UNCHANGED <<wallets, coreVars, ledgerVars, callVars, events, hook, hooksStarted, verifyCalls, secret>>

\* f"Not successful yet: {status_text}"
not_successful_yet(status_text) ==
    IF status_text = PaymentStatus.PENDING THEN "Not successful yet: PENDING"
    ELSE "Not successful yet: failed"

\* The three branches that close the loop body.
ReplayMark ==
    /\ replay.pc = "mark"
    /\ LET evt == replay.batch[replay.i]
           status_text == replay.result.status
       IN IF status_text = PaymentStatus.SUCCESS \/ replay.is_success
          THEN /\ events' = update_processed(events, evt, None)
               /\ replay' = ReplayContinue(replay, <<replay.processed + 1,
                                                    replay.skipped_missing_payment,
                                                    replay.failed>>)
          ELSE IF status_text = PaymentStatus.FAILED \/ replay.is_failed
          THEN /\ events' = update_processed(events, evt, "Terminal FAILED reconciliation")
               /\ replay' = ReplayContinue(replay, <<replay.processed + 1,
                                                    replay.skipped_missing_payment,
                                                    replay.failed>>)
          ELSE /\ events' = update_attempt(events, evt, not_successful_yet(status_text))
               /\ replay' = ReplayContinue(replay, <<replay.processed,
                                                    replay.skipped_missing_payment,
                                                    replay.failed + 1>>)
    /\ UNCHANGED <<wallets, coreVars, ledgerVars, callVars, hook, hooksStarted, verifyCalls, secret>>

\* A customer starts a Paystack payment for a booking of vendor v1.
MakePaystackBookingPayment == MakePaystackPayment(FALSE, FALSE, TRUE, NoOrder, 1)

InitWebhook ==
    /\ wallets = [v \in Vendors |-> 0]
    /\ IdleCore
    /\ IdleLedger
    /\ IdleCalls
    /\ events = <<>>
    /\ hook = [pc |-> "idle"]
    /\ hooksStarted = 0
    /\ replay = [pc |-> "idle"]
    /\ verifyCalls = 0
    /\ secret \in {"sk_live", None}

NextWebhook ==
    \/ MakePaystackBookingPayment
    \/ HookReceive
    \/ HookCreate
    \/ HookFinalize
    \/ HookMark
    \/ ReplayStart
    \/ ReplayCheck
    \/ ReplayMissing
    \/ ReplayFinalize
    \/ ReplayError
    \/ ReplayRead
    \/ ReplayMark

SpecWebhook == InitWebhook /\ [][NextWebhook]_vars

\* The command run again and again with the same options (a scheduled job),
\* against a gateway whose verify endpoint answers the command's calls with a
\* terminal status.  Each run goes through its loop to the end, and a new run
\* starts when the last one is over.
ReplayFinalizeTerminal == \E verify \in {"success", "failed"} : ReplayFinalizeWith(verify)

ReplayStartScheduled == ReplayStartWith(MaxLimit, MaxAttempts)

NextReplayFair ==
    \/ MakePaystackBookingPayment
    \/ HookReceive
    \/ HookCreate
    \/ HookFinalize
    \/ HookMark
    \/ ReplayStartScheduled
    \/ ReplayCheck
    \/ ReplayMissing
    \/ ReplayFinalizeTerminal
    \/ ReplayRead
    \/ ReplayMark

SpecReplayFair ==
    /\ InitWebhook
    /\ [][NextReplayFair]_vars
    /\ WF_vars(ReplayStartScheduled)
    /\ WF_vars(ReplayCheck)
    /\ WF_vars(ReplayMissing)
    /\ WF_vars(ReplayFinalizeTerminal)
    /\ WF_vars(ReplayRead)
    /\ WF_vars(ReplayMark)

\* ------------------------------------------------------- cashout in progress
\* A cashout whose Payment row exists: execute_momo_transaction has created it
\* (SUCCESS, about to run its wallet statement on the Wallet instance it read
\* at its start, or not successful yet and returned), and status-poll requests
\* arrive.  VendorCashoutAPI.post tests can_cashout before the call and the
\* call reads the wallet again, so the balance the call holds and the stored
\* one may both be below the amount by now.
InitCashout ==
    /\ \E amount \in 1..MaxAmount, stored \in 0..MaxAmount, held \in 0..MaxAmount,
          code \in ProviderCodes :
          LET transaction_is_successful == code = PaymentStatusCode.SUCCESS
              row == NewPayment(PaymentMethod.MOMO, None, None, None, "v1",
                                PaymentType.CREDIT, amount,
                                IF transaction_is_successful THEN PaymentStatus.SUCCESS
                                                             ELSE PaymentStatus.PENDING,
                                code)
          IN /\ payment = row
             /\ wallets = [v \in Vendors |-> IF v = "v1" THEN stored ELSE 0]
             /\ momo = IF transaction_is_successful THEN MomoAt("effects", row, held)
                                                    ELSE MomoDone
    /\ subscription = [start_date |-> 0, end_date |-> SubscriptionDays]
    /\ order = NoOrder
    /\ payouts = {}
    /\ payoutItems = {}
    /\ today = 1
    /\ polls = EmptyBag
    /\ pollsStarted = 0
    /\ balance0 = wallets
    /\ fanout = <<>>
    /\ IdleLedger
    /\ IdleWebhook
    /\ IdleCalls

NextCashout ==
    \/ MomoEffects
    \/ MomoSave
    \/ PollRead
    \/ PollSave
    \/ PollHook
    \/ PollApply

SpecCashout == InitCashout /\ [][NextCashout]_vars

\* ------------------------------------- settlement and later catalogue changes
\* An order is paid through Paystack; the gateway may report 'success' again
\* and again (webhook retries, the verify endpoint), and each time the effect
\* applier runs the fan-out.  Meanwhile products are repriced and order lines
\* are saved again through the admin site.
MaxPrice == 2

MaxQuantity == 2

\* Product.price is changed; the order lines keep the price they stored.
ProductSave ==
    \E i \in DOMAIN order.items, product_price \in 1..MaxPrice :
        /\ product_price # order.items[i].product_price
        /\ order' = [order EXCEPT !.items[i].product_price = product_price]
        /\ UNCHANGED <<payment, wallets, subscription, payouts, payoutItems, today, polls, pollsStarted, momo, balance0, fanout, ledgerVars, callVars, webhookVars>>

\* OrderItem.save() with a quantity: self.price = self.product.price * self.quantity
OrderItem_save ==
    \E i \in DOMAIN order.items, quantity \in 1..MaxQuantity :
        /\ order' = [order EXCEPT !.items[i] =
                        OrderLine(@.product, @.vendor, quantity, @.product_price)]
        /\ UNCHANGED <<payment, wallets, subscription, payouts, payoutItems, today, polls, pollsStarted, momo, balance0, fanout, ledgerVars, callVars, webhookVars>>

\* finalize_paystack_payment while the gateway reports 'success'.
FinalizeSuccess == Finalize("success")

\* The customer has started the Paystack payment of the order.
InitSettlement ==
    /\ \E o \in Orders :
        /\ o.delivery_fee_amount = 0
        /\ order = o
        /\ payment = NewPayment(PaymentMethod.PAYSTACK, "o1", None, None, None,
                                PaymentType.DEBIT, total_amount(o),
                                PaymentStatus.PENDING, None)
    /\ wallets = [v \in Vendors |-> 0]
    /\ subscription = [start_date |-> 0, end_date |-> SubscriptionDays]
    /\ payouts = {}
    /\ payoutItems = {}
    /\ today = 1
    /\ polls = EmptyBag
    /\ pollsStarted = 0
    /\ momo = IdleMomo
    /\ balance0 = wallets
    /\ fanout = <<>>
    /\ IdleLedger
    /\ IdleWebhook
    /\ IdleCalls

NextSettlement ==
    \/ FinalizeSuccess
    \/ ProductSave
    \/ OrderItem_save

SpecSettlement == InitSettlement /\ [][NextSettlement]_vars

\* ------------------------------------------------ payout approval endpoints
\* ApprovePayoutAPIView (approve or reject one payout) and
\* ApproveAllPendingPayoutsAPIView (approve the pending payouts of one vendor),
\* several requests at a time.  The single endpoint runs in autocommit without
\* any lock; the bulk endpoint holds its rows with select_for_update inside one
\* transaction, whose writes show when it commits.
NumApprovals == 3

\* The order whose payment created the payouts: lines of v1 and of v2.
PaidOrder ==
    [items |-> (1 :> OrderLine("p1", "v1", 1, 3) @@ 2 :> OrderLine("p2", "v2", 2, 1)),
     delivery_fee_amount |-> 0]

\* The payout of v1 for an earlier order.
EarlierPayout ==
    [id |-> 3, order |-> "o0", vendor |-> "v1", payment |-> "xyz789", amount |-> 1,
     payment_status |-> PaymentStatus.SUCCESS, payout_status |-> "PENDING",
     is_settled |-> FALSE]

PayoutIds == 1..3

\* payout.save(): the UPDATE writes every column of the row from the instance.
save_payout(rows, inst) == {r \in rows : r.id # inst.id} \cup {inst}

\* The four assignments before payout.save() in both views.
approved(inst) == [inst EXCEPT !.is_settled = TRUE, !.payout_status = "APPROVED"]

\* A variant of the bulk query without the payout_status filter.
select_unsettled(rows, vendor_id) ==
    {r \in rows : ~r.is_settled /\ r.vendor = vendor_id}

\* Payout.objects.filter(is_settled=False, payout_status='PENDING')
\*     .filter(vendor__vendor_id=vendor_id)
select_pending(rows, vendor_id) ==
    {r \in rows : ~r.is_settled /\ r.payout_status = "PENDING" /\ r.vendor = vendor_id}

\* A variant of the first loop that reports no missing wallet.
missing_wallets_ignored(d, rows) == {}

\* The first loop of the bulk view: the rows whose vendor.get_wallet() is None.
missing_wallets(d, rows) == {r \in rows : ~has_wallet(d, r.vendor)}

\* The second loop of the bulk view: credit, mark, save, row after row.
RECURSIVE approve_loop(_, _)
approve_loop(d, rows) ==
    IF rows = {} THEN d
    ELSE LET p == CHOOSE r \in rows : \A q \in rows : r.id <= q.id
         IN approve_loop([d EXCEPT !.wallets[p.vendor] = credit_wallet(@, p.amount),
                                   !.payouts = save_payout(@, approved(p))],
                         rows \ {p})

\* A request: the statement it is at, its body, the Payout instance and the
\* Wallet balance it holds, the rows a bulk request has locked, the payouts it
\* has credited so far (history), and the response status.
ApprovalAt(pc, req, payout, balance, rows, credited, status) ==
    [pc |-> pc, action |-> req.action, payout_id |-> req.payout_id,
     vendor_id |-> req.vendor_id, payout |-> payout, balance |-> balance,
     rows |-> rows, credited |-> credited, status |-> status]

ApprovalDone(a, status) ==
    ApprovalAt("done", a, a.payout, a.balance, {}, a.credited, status)

\* The requests an admin can send.
ApprovalRequests ==
    {[action |-> action, payout_id |-> id, vendor_id |-> None] :
        action \in {"approve", "reject"}, id \in PayoutIds}
    \cup {[action |-> "bulk", payout_id |-> 0, vendor_id |-> v] : v \in Vendors}

\* The rows some bulk request other than k holds under select_for_update.
IsLocked(k, id) ==
    \E j \in DOMAIN approvals :
        j # k /\ approvals[j].pc = "locked" /\ \E r \in approvals[j].rows : r.id = id

\* The order has been paid and fan-out has created its payouts; an earlier
\* payout of v1 is still pending; the requests have arrived.
InitApproval ==
    LET paid == NewPayment(PaymentMethod.PAYSTACK, "o1", None, None, None,
                           PaymentType.DEBIT, total_amount(PaidOrder),
                           PaymentStatus.SUCCESS, PaymentStatusCode.SUCCESS)
        empty == [payment |-> paid, wallets |-> [v \in Vendors |-> 0],
                  subscription |-> [start_date |-> 0, end_date |-> SubscriptionDays],
                  order |-> PaidOrder, payouts |-> {}, payoutItems |-> {}]
        d == create_payouts_for_order_payment(empty, paid)
    IN /\ payment = paid
       /\ wallets = d.wallets
       /\ subscription = d.subscription
       /\ order = PaidOrder
       /\ payouts = d.payouts \cup {EarlierPayout}
       /\ payoutItems = d.payoutItems
       /\ today = 1
       /\ polls = EmptyBag
       /\ pollsStarted = 0
       /\ momo = IdleMomo
       /\ balance0 = wallets
       /\ fanout = <<>>
       /\ ledger = [pc |-> "idle"]
       /\ ops = <<>>
       /\ approvals \in [1..NumApprovals ->
                            {ApprovalAt("start", req, NoPayout, 0, {}, {}, 0) :
                                req \in ApprovalRequests}]
       /\ IdleWebhook
       /\ IdleCalls

\* ApprovePayoutAPIView.post up to the branch: the unlocked read of the row and
\* the is_settled test on the instance.
ApprovePayoutRead ==
    \E k \in DOMAIN approvals :
        LET a == approvals[k]
            payout == IF \E r \in payouts : r.id = a.payout_id
                      THEN CHOOSE r \in payouts : r.id = a.payout_id ELSE NoPayout
        IN /\ a.pc = "start"
           /\ a.action \in {"approve", "reject"}
           /\ approvals' = [approvals EXCEPT ![k] =
                 IF payout = NoPayout THEN ApprovalDone(a, 404)
                 ELSE IF payout.is_settled THEN ApprovalDone(a, 400)
                 ELSE ApprovalAt(IF a.action = "reject" THEN "reject" ELSE "get_wallet",
                                 a, payout, 0, {}, {}, 0)]
           /\ UNCHANGED <<wallets, payouts, payment, subscription, order, payoutItems, today, polls, pollsStarted, momo, balance0, fanout, ledger, ops, callVars, webhookVars>>

\* payout.payout_status = 'REJECTED'; payout.save()
ApprovePayoutReject ==
    \E k \in DOMAIN approvals :
        LET a == approvals[k]
        IN /\ a.pc = "reject"
           /\ ~IsLocked(k, a.payout.id)
           /\ payouts' = save_payout(payouts, [a.payout EXCEPT !.payout_status = "REJECTED"])
           /\ approvals' = [approvals EXCEPT ![k] = ApprovalDone(a, 200)]
           /\ UNCHANGED <<wallets, payment, subscription, order, payoutItems, today, polls, pollsStarted, momo, balance0, fanout, ledger, ops, callVars, webhookVars>>

\* wallet = vendor.get_wallet()
ApprovePayoutGetWallet ==
    \E k \in DOMAIN approvals :
        LET a == approvals[k]
        IN /\ a.pc = "get_wallet"
           /\ approvals' = [approvals EXCEPT ![k] =
                 IF ~has_wallet(DB, a.payout.vendor) THEN ApprovalDone(a, 400)
                 ELSE ApprovalAt("credit", a, a.payout, wallets[a.payout.vendor], {}, {}, 0)]
           /\ UNCHANGED <<wallets, payouts, payment, subscription, order, payoutItems, today, polls, pollsStarted, momo, balance0, fanout, ledger, ops, callVars, webhookVars>>

\* wallet.credit_wallet(payout.amount) on the instance read before.
ApprovePayoutCredit ==
    \E k \in DOMAIN approvals :
        LET a == approvals[k]
        IN /\ a.pc = "credit"
           /\ wallets' = [wallets EXCEPT ![a.payout.vendor] = credit_wallet(a.balance, a.payout.amount)]
           /\ approvals' = [approvals EXCEPT ![k] =
                 ApprovalAt("save", a, a.payout, a.balance, {}, {a.payout.id}, 0)]
           /\ UNCHANGED <<payouts, payment, subscription, order, payoutItems, today, polls, pollsStarted, momo, balance0, fanout, ledger, ops, callVars, webhookVars>>

\* is_settled, settled_at, settled_by, payout_status = 'APPROVED'; payout.save()
ApprovePayoutSave ==
    \E k \in DOMAIN approvals :
        LET a == approvals[k]
        IN /\ a.pc = "save"
           /\ ~IsLocked(k, a.payout.id)
           /\ payouts' = save_payout(payouts, approved(a.payout))
           /\ approvals' = [approvals EXCEPT ![k] = ApprovalDone(a, 200)]
           /\ UNCHANGED <<wallets, payment, subscription, order, payoutItems, today, polls, pollsStarted, momo, balance0, fanout, ledger, ops, callVars, webhookVars>>

\* ApproveAllPendingPayoutsAPIView.post: payouts = list(qs.select_for_update()).
\* The statement waits while another transaction holds one of its rows, and
\* returns the rows that match once it has them.
ApproveAllSelect ==
    \E k \in DOMAIN approvals :
        LET a == approvals[k]
            rows == select_pending(payouts, a.vendor_id)
        IN /\ a.pc = "start"
           /\ a.action = "bulk"
           /\ \A r \in rows : ~IsLocked(k, r.id)
           /\ approvals' = [approvals EXCEPT ![k] =
                 IF rows = {} THEN ApprovalDone(a, 200)
                 ELSE ApprovalAt("locked", a, NoPayout, 0, rows, {}, 0)]
           /\ UNCHANGED <<wallets, payouts, payment, subscription, order, payoutItems, today, polls, pollsStarted, momo, balance0, fanout, ledger, ops, callVars, webhookVars>>

\* The rest of the transaction: the wallet check, the loop, the commit.
ApproveAllApply ==
    \E k \in DOMAIN approvals :
        LET a == approvals[k]
            d == approve_loop(DB, a.rows)
        IN /\ a.pc = "locked"
           /\ IF missing_wallets(DB, a.rows) # {}
              THEN /\ approvals' = [approvals EXCEPT ![k] = ApprovalDone(a, 400)]
                   /\ UNCHANGED <<wallets, payouts>>
              ELSE /\ wallets' = d.wallets
                   /\ payouts' = d.payouts
                   /\ approvals' = [approvals EXCEPT ![k] =
                         ApprovalAt("done", a, NoPayout, 0, {}, {r.id : r \in a.rows}, 200)]
           /\ UNCHANGED <<payment, subscription, order, payoutItems, today, polls, pollsStarted, momo, balance0, fanout, ledger, ops, callVars, webhookVars>>

NextApproval ==
    \/ ApprovePayoutRead
    \/ ApprovePayoutReject
    \/ ApprovePayoutGetWallet
    \/ ApprovePayoutCredit
    \/ ApprovePayoutSave
    \/ ApproveAllSelect
    \/ ApproveAllApply

SpecApproval == InitApproval /\ [][NextApproval]_vars

\* The same requests when v2 has no Wallet row: Vendor.get_wallet() returns
\* None for it.
InitApprovalNoWallet ==
    LET paid == NewPayment(PaymentMethod.PAYSTACK, "o1", None, None, None,
                           PaymentType.DEBIT, total_amount(PaidOrder),
                           PaymentStatus.SUCCESS, PaymentStatusCode.SUCCESS)
        empty == [payment |-> paid, wallets |-> [v \in {"v1"} |-> 0],
                  subscription |-> [start_date |-> 0, end_date |-> SubscriptionDays],
                  order |-> PaidOrder, payouts |-> {}, payoutItems |-> {}]
        d == create_payouts_for_order_payment(empty, paid)
    IN /\ payment = paid
       /\ wallets = d.wallets
       /\ subscription = d.subscription
       /\ order = PaidOrder
       /\ payouts = d.payouts \cup {EarlierPayout}
       /\ payoutItems = d.payoutItems
       /\ today = 1
       /\ polls = EmptyBag
       /\ pollsStarted = 0
       /\ momo = IdleMomo
       /\ balance0 = wallets
       /\ fanout = <<>>
       /\ ledger = [pc |-> "idle"]
       /\ ops = <<>>
       /\ approvals \in [1..NumApprovals ->
                            {ApprovalAt("start", req, NoPayout, 0, {}, {}, 0) :
                                req \in ApprovalRequests}]
       /\ IdleWebhook
       /\ IdleCalls

SpecApprovalNoWallet == InitApprovalNoWallet /\ [][NextApproval]_vars

\* ------------------------------ finalize_paystack_payment, statement by statement
\* Several calls for the same reference (webhook, callback, verify endpoint),
\* each followed through its gateway call, its checks, the row lock and the
\* transaction.
NumFinalizes == 2

\* A call: the statement it is at, what paystack_verify returned, how many
\* gateway calls it has made, and what it returned.
FinalizeAt(pc, verify, gateway_calls, result) ==
    [pc |-> pc, verify |-> verify, gateway_calls |-> gateway_calls, result |-> result]

\* A variant whose transaction opens before the gateway is called.
holds_lock_from_start(c) == c.pc \in {"start", "check", "lock", "locked"}

\* with transaction.atomic(): payment = Payment.objects.select_for_update()...:
\* the call holds the row lock from the select to the end of the block.
holds_lock(c) == c.pc = "locked"

InitFinalize ==
    /\ wallets = [v \in Vendors |-> 0]
    /\ IdleCore
    /\ IdleLedger
    /\ finalizes = [k \in 1..NumFinalizes |-> FinalizeAt("start", None, 0, NoResult)]
    /\ cashouts = <<>>
    /\ IdleWebhook

\* verify = paystack_verify(reference): the gateway call, which may raise.
FinalizeVerify ==
    \E k \in DOMAIN finalizes :
        \E verify \in VerifyOutcomes :
            LET c == finalizes[k]
            IN /\ c.pc = "start"
               /\ verifyCalls' = verifyCalls + 1
               /\ finalizes' = [finalizes EXCEPT ![k] =
                     IF verify = "raise"
                     THEN FinalizeAt("done", verify, c.gateway_calls + 1,
                                     [status |-> None, api_status |-> 500])
                     ELSE FinalizeAt("check", verify, c.gateway_calls + 1, NoResult)]
               /\ UNCHANGED <<payment, wallets, subscription, order, payouts, payoutItems, today, polls, pollsStarted, momo, balance0, fanout, ledgerVars, cashouts, events, hook, hooksStarted, replay, secret>>

\* The unlocked look-up of the row and the test of the envelope.
FinalizeCheck ==
    \E k \in DOMAIN finalizes :
        LET c == finalizes[k]
        IN /\ c.pc = "check"
           /\ finalizes' = [finalizes EXCEPT ![k] =
                 IF ~payment_exists(DB, Reference)
                 THEN FinalizeAt("done", c.verify, c.gateway_calls,
                                 [status |-> "failed", api_status |-> 404])
                 ELSE IF c.verify = "no_data"
                      THEN FinalizeAt("done", c.verify, c.gateway_calls,
                                      [status |-> "failed", api_status |-> 400])
                      ELSE FinalizeAt("lock", c.verify, c.gateway_calls, NoResult)]
           /\ UNCHANGED <<payment, wallets, subscription, order, payouts, payoutItems, verifyCalls, today, polls, pollsStarted, momo, balance0, fanout, ledgerVars, cashouts, events, hook, hooksStarted, replay, secret>>

\* with transaction.atomic(): Payment.objects.select_for_update()...first():
\* the statement waits while another transaction holds the row.
FinalizeLock ==
    \E k \in DOMAIN finalizes :
        LET c == finalizes[k]
        IN /\ c.pc = "lock"
           /\ \A j \in DOMAIN finalizes : j # k => ~holds_lock(finalizes[j])
           /\ finalizes' = [finalizes EXCEPT ![k] =
                 FinalizeAt("locked", c.verify, c.gateway_calls, NoResult)]
           /\ UNCHANGED <<payment, wallets, subscription, order, payouts, payoutItems, verifyCalls, today, polls, pollsStarted, momo, balance0, fanout, ledgerVars, cashouts, events, hook, hooksStarted, replay, secret>>

\* The rest of the block: the status transition, the effects, the commit.
FinalizeCommit ==
    \E k \in DOMAIN finalizes :
        LET c == finalizes[k]
            r == finalize_paystack_payment(DB, c.verify, today)
        IN /\ c.pc = "locked"
           /\ Commit(r.db)
           /\ finalizes' = [finalizes EXCEPT ![k] =
                 FinalizeAt("done", c.verify, c.gateway_calls,
                            IF r.raised THEN [status |-> None, api_status |-> 500]
                            ELSE [status |-> r.inst.status, api_status |-> 200])]
           /\ UNCHANGED <<verifyCalls, today, polls, pollsStarted, momo, balance0, fanout, ledgerVars, cashouts, events, hook, hooksStarted, replay, secret>>

NextFinalize ==
    \/ MakePaystackBookingPayment
    \/ FinalizeVerify
    \/ FinalizeCheck
    \/ FinalizeLock
    \/ FinalizeCommit

SpecFinalize == InitFinalize /\ [][NextFinalize]_vars

\* ------------------------------------- VendorCashoutAPI, several requests at once
\* VendorCashoutAPI.post and the execute_momo_transaction call it makes with
\* type CREDIT, statement by statement, for requests of vendor v1 in flight
\* together.  Nothing here runs in a transaction or takes a lock.
NumCashouts == 3

\* A request: the statement it is at, the amount asked for, the balance of the
\* Wallet instance it read, whether the provider reported the disbursement
\* successful within the polling window, the vendor_credited_debited flag of
\* the Payment row it created, and the response status.
CashoutAt(pc, amount, balance, transaction_is_successful, vendor_credited_debited, status) ==
    [pc |-> pc, amount |-> amount, balance |-> balance,
     transaction_is_successful |-> transaction_is_successful,
     vendor_credited_debited |-> vendor_credited_debited, status |-> status]

InitConcurrentCashout ==
    /\ \E b \in 0..MaxAmount : wallets = [v \in Vendors |-> IF v = "v1" THEN b ELSE 0]
    /\ IdleCore
    /\ IdleLedger
    /\ finalizes = <<>>
    /\ cashouts \in [1..NumCashouts ->
                        {CashoutAt("start", amount, 0, FALSE, FALSE, 0) : amount \in 1..MaxAmount}]
    /\ IdleWebhook

\* if can_cashout(request, amount): ... else 400
VendorCashoutCheck ==
    \E k \in DOMAIN cashouts :
        LET c == cashouts[k]
        IN /\ c.pc = "start"
           /\ cashouts' = [cashouts EXCEPT ![k] =
                 IF can_cashout(DB, "v1", c.amount)
                 THEN CashoutAt("get_wallet", c.amount, 0, FALSE, FALSE, 0)
                 ELSE CashoutAt("done", c.amount, 0, FALSE, FALSE, 400)]
           /\ UNCHANGED <<wallets, payment, subscription, order, payouts, payoutItems, today, polls, pollsStarted, momo, balance0, fanout, ledgerVars, finalizes, webhookVars>>

\* wallet = vendor.get_wallet() at the start of execute_momo_transaction.
VendorCashoutGetWallet ==
    \E k \in DOMAIN cashouts :
        LET c == cashouts[k]
        IN /\ c.pc = "get_wallet"
           /\ cashouts' = [cashouts EXCEPT ![k] =
                 IF has_wallet(DB, "v1")
                 THEN CashoutAt("disburse", c.amount, wallets["v1"], FALSE, FALSE, 0)
                 ELSE CashoutAt("done", c.amount, 0, FALSE, FALSE, 400)]
           /\ UNCHANGED <<wallets, payment, subscription, order, payouts, payoutItems, today, polls, pollsStarted, momo, balance0, fanout, ledgerVars, finalizes, webhookVars>>

\* disburse_funds(data), the polling loop and Payment.objects.create: the
\* provider reports the disbursement successful within the window or not.
VendorCashoutDisburse ==
    \E k \in DOMAIN cashouts :
        \E transaction_is_successful \in BOOLEAN :
            LET c == cashouts[k]
            IN /\ c.pc = "disburse"
               /\ cashouts' = [cashouts EXCEPT ![k] =
                     IF transaction_is_successful
                     THEN CashoutAt("debit", c.amount, c.balance, TRUE, FALSE, 0)
                     ELSE CashoutAt("done", c.amount, c.balance, FALSE, FALSE, 201)]
               /\ UNCHANGED <<wallets, payment, subscription, order, payouts, payoutItems, today, polls, pollsStarted, momo, balance0, fanout, ledgerVars, finalizes, webhookVars>>

\* success = wallet.debit_wallet(amount); if success: flag, transaction.save()
VendorCashoutDebit ==
    \E k \in DOMAIN cashouts :
        LET c == cashouts[k]
            r == debit_wallet(c.balance, c.amount)
        IN /\ c.pc = "debit"
           /\ wallets' = IF r.ok THEN [wallets EXCEPT !["v1"] = r.balance] ELSE wallets
           /\ cashouts' = [cashouts EXCEPT ![k] =
                 CashoutAt("done", c.amount, r.balance, TRUE, r.ok, 200)]
           /\ UNCHANGED <<payment, subscription, order, payouts, payoutItems, today, polls, pollsStarted, momo, balance0, fanout, ledgerVars, finalizes, webhookVars>>

NextConcurrentCashout ==
    \/ VendorCashoutCheck
    \/ VendorCashoutGetWallet
    \/ VendorCashoutDisburse
    \/ VendorCashoutDebit

SpecConcurrentCashout == InitConcurrentCashout /\ [][NextConcurrentCashout]_vars

\* ===================================================================== claims

Abs(x) == IF x < 0 THEN 0 - x ELSE x

\* C1: when finalize_paystack_payment first observes 'success' for a PENDING
\* non-order payment whose vendor has a wallet and whose vendor_credited_debited
\* is false, afterwards the payment is SUCCESS, the flag is true and the wallet
\* balance has moved by exactly payment.amount (up for DEBIT, down for CREDIT
\* when the balance was sufficient).
C1_FinalizeSuccessMovesWallet ==
    [][(/\ payment # NoPayment
        /\ payment.status = PaymentStatus.PENDING
        /\ payment.order = None
        /\ payment.vendor # None
        /\ has_wallet(DB, payment.vendor)
        /\ ~payment.vendor_credited_debited
        /\ Finalize("success"))
       => (/\ is_success(payment')
           /\ payment'.vendor_credited_debited
           /\ wallets'[payment.vendor] =
                 IF payment.payment_type = PaymentType.DEBIT
                 THEN wallets[payment.vendor] + payment.amount
                 ELSE IF wallets[payment.vendor] >= payment.amount
                      THEN wallets[payment.vendor] - payment.amount
                      ELSE wallets[payment.vendor])]_vars

\* C2: in every interleaving of the entry points on one payment, the vendor
\* wallet moves by at most payment.amount on account of that payment.
C2_WalletMovedAtMostOnce ==
    \A v \in Vendors :
        IF payment = NoPayment THEN wallets[v] = balance0[v]
        ELSE Abs(wallets[v] - balance0[v]) <= payment.amount

\* One statement of a status-poll request.
PollStep(r) == PollSaveOf(r) \/ PollHookOf(r) \/ PollApplyOf(r)

\* C3: for a payment that is already SUCCESS, finalize_paystack_payment with a
\* non-success observation, and the status poll with a failed or unknown
\* provider code (run with nothing in between), leave the status SUCCESS and
\* both guard flags unchanged.
C3_NoDowngradeKeepsFlags ==
    [][(/\ payment # NoPayment
        /\ is_success(payment)
        /\ \/ Finalize("failed")
           \/ Finalize("abandoned")
           \/ \E r \in BagToSet(polls) :
                 /\ r.code # PaymentStatusCode.SUCCESS
                 /\ r.inst = payment
                 /\ PollStep(r))
       => (/\ is_success(payment')
           /\ payment'.vendor_credited_debited = payment.vendor_credited_debited
           /\ payment'.subscription_effects_applied = payment.subscription_effects_applied)]_vars

\* C4: once the stored status is SUCCESS no later write changes it.
C4_SuccessIsSticky ==
    [][(payment # NoPayment /\ payment.status = PaymentStatus.SUCCESS)
       => payment'.status = PaymentStatus.SUCCESS]_vars

\* C5: the guard flags of the stored row are monotonic: once true, no later
\* write resets them.
C5_FlagsMonotonic ==
    [][payment # NoPayment
       => (/\ payment.vendor_credited_debited => payment'.vendor_credited_debited
           /\ payment.subscription_effects_applied => payment'.subscription_effects_applied)]_vars

\* The effect applier runs on the stored payment: finalize_paystack_payment
\* observing 'success', or the status poll's apply_payment_success_effects.
AppliesEffects ==
    /\ payment # NoPayment
    /\ \/ Finalize("success")
       \/ \E r \in BagToSet(polls) :
             /\ is_success(r.inst)
             /\ is_success(payment)
             /\ PollApplyOf(r)

ApplyOnce == apply_payment_success_effects(DB, payment, today)

ApplyTwice == apply_payment_success_effects(ApplyOnce.db, ApplyOnce.db.payment, today + 1)

ApplyThrice == apply_payment_success_effects(ApplyTwice.db, ApplyTwice.db.payment, today + 1)

UniqueRows(d) ==
    /\ \A p, q \in d.payouts : (p.order = q.order /\ p.vendor = q.vendor) => p = q
    /\ \A p, q \in d.payoutItems : (p.payout = q.payout /\ p.order_item = q.order_item) => p = q

SameMoney(d, e) ==
    /\ d.wallets = e.wallets
    /\ d.payouts = e.payouts
    /\ d.payoutItems = e.payoutItems

\* C6: applying apply_payment_success_effects two or three times in sequence to
\* the same SUCCESS payment gives the same wallet balances and the same Payout
\* and PayoutItem rows as applying it once, with at most one Payout per
\* (order, vendor) and at most one PayoutItem per (payout, order item).
C6_ApplierIdempotent ==
    (payment # NoPayment /\ is_success(payment))
    => /\ SameMoney(ApplyTwice.db, ApplyOnce.db)
       /\ SameMoney(ApplyThrice.db, ApplyOnce.db)
       /\ UniqueRows(ApplyOnce.db)
       /\ UniqueRows(ApplyThrice.db)

\* The applier has made the two payouts of a SUCCESS order payment: applying
\* again changes nothing.
C6_Witness ==
    /\ payment # NoPayment
    /\ is_success(payment)
    /\ payment.order # None
    /\ Cardinality(payouts) = 2
    /\ Cardinality(payoutItems) = 2
    /\ momo.pc = "idle"
    /\ SameMoney(ApplyOnce.db, DB)

\* The line totals of vendor v among the first n lines of the order.
RECURSIVE LineTotals(_, _, _)
LineTotals(o, v, n) ==
    IF n = 0 THEN 0
    ELSE (IF o.items[n].vendor = v THEN o.items[n].price ELSE 0) + LineTotals(o, v, n - 1)

NumLines(o) == Cardinality(DOMAIN o.items)

RECURSIVE SumAmounts(_)
SumAmounts(rows) ==
    IF rows = {} THEN 0
    ELSE LET r == CHOOSE x \in rows : TRUE
         IN r.amount + SumAmounts(rows \ {r})

\* The lines of the order whose product has a vendor.
VendorLines(o) == LineTotals(o, "v1", NumLines(o)) + LineTotals(o, "v2", NumLines(o))

FanoutDone == \E w \in DOMAIN fanout : fanout[w].pc = "done"

\* C7 (as amended): after fan-out for a successful order payment, also with
\* three calls running concurrently, the Payout amounts of the order add up to
\* the line totals of the lines whose product has a vendor, which is the
\* amount charged less the delivery fee and less the lines without vendor;
\* and there is one Payout per (order, vendor).
C7_FanoutConservesVendorLines ==
    /\ FanoutDone =>
          /\ SumAmounts(payouts) = VendorLines(order)
          /\ SumAmounts(payouts) =
                payment.amount - order.delivery_fee_amount - LineTotals(order, None, NumLines(order))
    /\ UniqueRows(DB)

\* C7 (as stated): after fan-out the Payout amounts of the order add up to the
\* amount A charged for the order.
C7_FanoutConservesAmount ==
    FanoutDone => SumAmounts(payouts) = payment.amount

\* All three concurrent calls are over, for a two-vendor order with a delivery fee.
C7_Witness ==
    /\ \A w \in DOMAIN fanout : fanout[w].pc = "done"
    /\ Cardinality(DOMAIN fanout) = NumFanouts
    /\ Cardinality(payouts) = 2
    /\ order.delivery_fee_amount > 0
    /\ SumAmounts(payouts) = 5

\* C8: applying effects to a SUCCESS payment for an Order leaves one Payout per
\* vendor of the order's lines, its amount the sum of that vendor's line
\* totals, a newly created one with payout_status PENDING, and leaves every
\* vendor wallet balance as it was.
C8_OrderPaymentFansOut ==
    [][(AppliesEffects /\ payment.order # None)
       => (/\ \A v \in Vendors :
                LET rows == {p \in payouts' : p.order = payment.order /\ p.vendor = v}
                IN IF \E i \in DOMAIN order.items : order.items[i].vendor = v
                   THEN /\ Cardinality(rows) = 1
                        /\ \A p \in rows :
                              /\ p.amount = LineTotals(order, v, NumLines(order))
                              /\ p.id \notin {q.id : q \in payouts}
                                    => (p.payout_status = "PENDING" /\ ~p.is_settled)
                   ELSE rows = {}
           /\ \A p \in payouts' : p.vendor \in Vendors
           /\ wallets' = wallets)]_vars

\* Lines of 3 and 2 of two vendors have given Payouts of 3 and 2; no wallet moved.
C8_Witness ==
    /\ payment # NoPayment
    /\ is_success(payment)
    /\ payment.order # None
    /\ {p.amount : p \in payouts} = {3, 2}
    /\ \A p \in payouts : p.payout_status = "PENDING"
    /\ wallets = balance0
    /\ momo.pc = "idle"

C10_SubscriptionRenewedOnce ==
    [][/\ (AppliesEffects /\ payment.subscription # None
             /\ ~payment.subscription_effects_applied /\ subscription.start_date = 0)
          => (/\ subscription' = [start_date |-> today,
                                  end_date |-> today + SubscriptionDays]
              /\ payment'.subscription_effects_applied)
       /\ subscription.start_date # 0 => subscription' = subscription]_vars

\* C11: debit_wallet(amount) on a balance B fails and leaves B when B < amount,
\* succeeds and leaves B - amount when B >= amount; credit_wallet(amount)
\* returns normally and leaves B + amount.
C11_WalletContract ==
    /\ ledger.pc = "debited" =>
          IF ledger.B < ledger.amount
          THEN ledger.returned = FALSE /\ wallets["v1"] = ledger.B
          ELSE ledger.returned = TRUE /\ wallets["v1"] = ledger.B - ledger.amount
    /\ ledger.pc = "credited" =>
          ledger.returned = None /\ wallets["v1"] = ledger.B + ledger.amount

\* A debit of the whole balance succeeds and empties the wallet.
C11_Witness ==
    /\ ledger.pc = "debited"
    /\ ledger.B = ledger.amount
    /\ ledger.B > 0
    /\ ledger.returned = TRUE
    /\ wallets["v1"] = 0

\* C12: every vendor's wallet balance is non-negative in every reachable state,
\* whatever the interleaving of settlements, cashouts and payout approvals.
C12_BalanceNonNegative == \A v \in Vendors : wallets[v] >= 0

OpsDone == \A k \in DOMAIN ops : ops[k].pc = "done"

\* A cashout and a credit ran on the same wallet, the cashout succeeded and the
\* wallet ended empty.
C12_Witness ==
    /\ DOMAIN ops # {}
    /\ OpsDone
    /\ \E k \in DOMAIN ops : ops[k].kind = "cashout" /\ ops[k].ok
    /\ \E k \in DOMAIN ops : ops[k].kind # "cashout"
    /\ wallets["v1"] = 0

\* What the operations 1..k that succeeded add to the wallet, debits negative.
RECURSIVE OpsTotal(_)
OpsTotal(k) ==
    IF k = 0 THEN 0
    ELSE OpsTotal(k - 1)
         + (IF ~ops[k].ok THEN 0
            ELSE IF ops[k].kind = "cashout" THEN 0 - ops[k].amount ELSE ops[k].amount)

\* C14: the row lock on Payment is enough: when different SUCCESS payments are
\* applied concurrently, also against the same vendor wallet, no wallet update
\* is lost, so the final balance holds every applied amount.
C14_NoLostWalletUpdate ==
    (/\ DOMAIN ops # {}
     /\ OpsDone
     /\ \A k \in DOMAIN ops : ops[k].kind = "settlement")
    => wallets["v1"] = balance0["v1"] + OpsTotal(NumOps)

\* C13: the wallet mutation and the guard-flag update of the payment that
\* triggered it are atomic: after a crash either the wallet change and
\* vendor_credited_debited = TRUE are both stored, or neither is.
C13_WalletAndFlagAtomic ==
    (momo.pc = "crashed" /\ pollsStarted = 0)
    => ((wallets # balance0) <=> payment.vendor_credited_debited)

\* A webhook request has just been received (first step of the view).
HookReceived == hooksStarted' = hooksStarted + 1

\* The request's signature is missing, no secret is configured, or the
\* signature is not the digest of the request's body under the secret.
BadSignature(h) ==
    \/ h.signature = NoSignature
    \/ secret = None
    \/ h.signature # hmac_sha512(secret, h.body)

\* No Payment, Wallet, Payout, PayoutItem, Subscription or WebhookEvent row
\* changes and the gateway is not called.
NoRowChanges ==
    /\ UNCHANGED <<payment, wallets, subscription, order, payouts, payoutItems, events>>
    /\ verifyCalls' = verifyCalls

\* C15: a webhook request whose signature is missing, or is not the HMAC-SHA512
\* of the raw body under the configured secret, or that arrives when no secret
\* is configured, ends at once with a non-2xx response, changes no row and
\* does not call the gateway.
C15_BadSignatureRejected ==
    [][(hook'.pc # "idle" /\ BadSignature(hook')) =>
          /\ hook'.pc = "done"
          /\ hook'.status >= 400
          /\ HookReceived => NoRowChanges]_vars

\* A request signed with another key over its own body, for an existing
\* payment, was answered 401.
C15_Witness ==
    /\ hook.pc = "done"
    /\ hook.status = 401
    /\ hook.signature = hmac_sha512("sk_other", hook.body)
    /\ hook.body = "known"
    /\ payment # NoPayment

\* C16: a correctly signed webhook whose event is not one of the four known
\* transaction-outcome events, an absent or empty event included, is answered
\* with success and ignored: nothing is queued, no Payment changes, no gateway call.
C16_UnknownEventIgnored ==
    [][(/\ HookReceived
        /\ ~BadSignature(hook')
        /\ json_loads(hook'.body).ok
        /\ json_loads(hook'.body).event \notin allowed_events) =>
          /\ hook'.pc = "done"
          /\ hook'.status = 200
          /\ hook'.answer = "ignored"
          /\ NoRowChanges]_vars

\* C17: a correctly signed webhook with a known event for a reference without
\* local Payment goes to the queue: exactly one WebhookEvent row is added, with
\* processed = FALSE, attempts = 0, the reference, payload and signature, and
\* the answer is 200; or the row cannot be stored, nothing is added and the
\* answer is 500.  No Payment is created or changed.
C17_UnknownReferenceQueued ==
    [][/\ (/\ HookReceived
           /\ ~BadSignature(hook')
           /\ json_loads(hook'.body).ok
           /\ json_loads(hook'.body).reference # None
           /\ json_loads(hook'.body).event \in allowed_events
           /\ ~payment_exists(DB, json_loads(hook'.body).reference))
          => hook'.pc = "create" /\ NoRowChanges
       /\ (hook.pc = "create" /\ hook' # hook
           /\ json_loads(hook.body).event \in allowed_events)
          => /\ hook'.pc = "done"
             /\ UNCHANGED <<payment, wallets, subscription, order, payouts, payoutItems>>
             /\ verifyCalls' = verifyCalls
             /\ \/ /\ hook'.status = 200
                   /\ Len(events') = Len(events) + 1
                   /\ SubSeq(events', 1, Len(events)) = events
                   /\ LET row == events'[Len(events')]
                      IN /\ row.processed = FALSE
                         /\ row.attempts = 0
                         /\ row.reference = json_loads(hook.body).reference
                         /\ row.payload = hook.body
                         /\ row.signature = hook.signature
                         /\ row.event = json_loads(hook.body).event
                \/ /\ hook'.status = 500
                   /\ events' = events]_vars

\* A signed charge.success for a reference without Payment was queued.
C17_Witness ==
    /\ hook.pc = "done"
    /\ hook.answer = "queued"
    /\ hook.status = 200
    /\ hook.body = "known"
    /\ payment = NoPayment
    /\ Len(events) = 1
    /\ events[1].attempts = 0
    /\ ~events[1].processed

\* The row the replay run is handling, as the run selected it.
ReplayEvt == replay.batch[replay.i]

\* That event is still queued: no webhook request has marked it processed
\* since the run selected it.
StillQueued == ~events[ReplayEvt.id].processed

\* No row is added or removed, and only row id may differ.
OtherRowsKept(id) ==
    /\ Len(events') = Len(events)
    /\ \A j \in DOMAIN events : j # id => events'[j] = events[j]

\* C18: when the replay run handles a queued event whose Payment still does
\* not exist, the event's attempts grows by exactly one, last_error becomes
\* 'Payment still missing', processed stays FALSE, the gateway is not called,
\* no event row is deleted or added, and the run counts one more
\* skipped_missing_payment.
C18_MissingPaymentCounted ==
    [][(replay.pc = "missing" /\ replay' # replay /\ StillQueued) =>
          LET id == ReplayEvt.id
          IN /\ events'[id] = [events[id] EXCEPT !.attempts = @ + 1,
                                                  !.last_error = "Payment still missing"]
             /\ events'[id].processed = FALSE
             /\ OtherRowsKept(id)
             /\ verifyCalls' = verifyCalls
             /\ UNCHANGED <<payment, wallets, payouts>>
             /\ replay'.skipped_missing_payment = replay.skipped_missing_payment + 1
             /\ replay'.processed = replay.processed
             /\ replay'.failed = replay.failed]_vars

\* A run found the Payment of the queued event missing and counted the attempt.
C18_Witness ==
    /\ replay.pc = "done"
    /\ replay.skipped_missing_payment = 1
    /\ payment = NoPayment
    /\ verifyCalls = 0
    /\ Len(events) = 1
    /\ events[1].attempts = 1
    /\ events[1].last_error = "Payment still missing"
    /\ ~events[1].processed

\* C19: a replay run with max_attempts = k selects at most limit events, the
\* oldest ones among those with processed = FALSE and attempts < k; it calls
\* finalize only for, and modifies only, the selected event it is handling,
\* and never one whose attempts is k or more, however often replay is run.
C19_BoundedReplay ==
    [][/\ (replay.pc \in {"idle", "done"} /\ replay' # replay) =>
            LET k == replay'.max_attempts
                batch == replay'.batch
                queued == {j \in DOMAIN events :
                              ~events[j].processed /\ events[j].attempts < k}
                chosen == {batch[n].id : n \in DOMAIN batch}
            IN /\ Len(batch) <= replay'.limit
               /\ \A n \in DOMAIN batch : batch[n].id \in queued
                                           /\ batch[n] = events[batch[n].id]
               /\ \A n, m \in DOMAIN batch : n < m => batch[n].id < batch[m].id
               /\ \A j \in queued \ chosen :
                     /\ Len(batch) = replay'.limit
                     /\ \A n \in DOMAIN batch : batch[n].id < j
       /\ (replay.pc \in {"missing", "finalize", "error", "mark"}
           /\ replay' # replay /\ StillQueued) =>
            /\ events[ReplayEvt.id].attempts < replay.max_attempts
            /\ events[ReplayEvt.id] = ReplayEvt
       /\ (replay' # replay /\ events' # events) =>
            /\ replay.pc \in {"missing", "error", "mark"}
            /\ OtherRowsKept(ReplayEvt.id)
       /\ (replay' # replay /\ verifyCalls' # verifyCalls) => replay.pc = "finalize"
       /\ replay'.pc # "idle" =>
            replay'.processed + replay'.skipped_missing_payment + replay'.failed
                <= replay'.limit]_vars

\* A run with max_attempts = 1 and limit = 1 left aside an unprocessed event
\* that already has one attempt, and handled the one after it.
C19_Witness ==
    /\ replay.pc = "done"
    /\ replay.max_attempts = 1
    /\ replay.limit = 1
    /\ Len(events) = 2
    /\ ~events[1].processed
    /\ events[1].attempts = 1
    /\ Len(replay.batch) = 1
    /\ replay.batch[1].id = 2

\* The run's finalize call ended with the payment pending, and the run read it
\* as neither SUCCESS nor FAILED.
StillPending ==
    /\ replay.result.status = PaymentStatus.PENDING
    /\ ~replay.is_success
    /\ ~replay.is_failed

\* C20: when the run's finalize call for an event ends with the payment still
\* pending, or raises, the event's attempts grows by one, an error is recorded
\* in last_error, processed stays FALSE, and a later run with the same
\* max_attempts selects the event as long as its attempts is below it.
C20_FailedAttemptCounted ==
    [][(/\ replay' # replay
        /\ replay.pc = "error" \/ (replay.pc = "mark" /\ StillPending)
        /\ StillQueued) =>
          LET id == ReplayEvt.id
              k == replay.max_attempts
              later == select_queued(events', k)
          IN /\ events'[id].attempts = events[id].attempts + 1
             /\ events'[id].last_error # None
             /\ events'[id].processed = FALSE
             /\ OtherRowsKept(id)
             /\ replay'.failed = replay.failed + 1
             /\ events'[id].attempts < k =>
                   \E n \in DOMAIN later : later[n].id = id]_vars

\* Two failed attempts were counted on the same event, the last one for a
\* payment that is still pending.
C20_Witness ==
    /\ replay.pc = "done"
    /\ replay.failed = 1
    /\ payment # NoPayment
    /\ payment.status = PaymentStatus.PENDING
    /\ Len(events) = 1
    /\ events[1].attempts = 2
    /\ events[1].last_error = "Not successful yet: PENDING"
    /\ ~events[1].processed

\* Event row j has just been marked processed.
MarkedProcessed(j) == events'[j].processed /\ ~events[j].processed

\* C21: an event is set to processed = TRUE, by the replay run or by the
\* webhook handler, only when the Payment with its reference exists and is in
\* a terminal status, processed_at is set in the same update, and the gateway
\* verification of the request that marks it did not fail or raise.
C21_ProcessedOnlyWhenReconciled ==
    [][\A j \in DOMAIN events :
          MarkedProcessed(j) =>
             /\ payment' # NoPayment
             /\ payment'.payment_id = events[j].reference
             /\ payment'.status \in {PaymentStatus.SUCCESS, PaymentStatus.FAILED}
             /\ events'[j].processed_at # None
             /\ replay' # replay => replay.result.api_status = 200
             /\ hook' # hook => hook.result.api_status = 200]_vars

\* The finalize call a request has just made met a gateway that raised (or
\* timed out) or answered without status or data.
HookVerifyFailed ==
    /\ hook.pc = "finalize"
    /\ hook' # hook
    /\ hook'.pc = "done" \/ hook'.result.api_status = 400

ReplayVerifyFailed ==
    /\ replay.pc = "finalize"
    /\ replay' # replay
    /\ replay'.pc = "error" \/ replay'.result.api_status = 400

\* C22: when the gateway verify call raises, times out or returns an
\* unsuccessful envelope, nothing local is mutated: the payment (status,
\* status_code, guard flags), the wallets, the payouts and the subscription
\* are as before, so the payment is not written FAILED.
C22_FailedVerifyMutatesNothing ==
    [][(HookVerifyFailed \/ ReplayVerifyFailed) =>
          UNCHANGED <<payment, wallets, payouts, payoutItems, subscription, order>>]_vars

\* A replay run got an unsuccessful envelope for a payment that is PENDING.
C22_Witness ==
    /\ replay.pc = "read"
    /\ replay.result.api_status = 400
    /\ payment # NoPayment
    /\ payment.status = PaymentStatus.PENDING

\* C23: for a correctly signed webhook with a known event and an existing
\* Payment, the response follows the outcome of finalize: an exception or an
\* error reply of the gateway verification gives a non-2xx response, every
\* business outcome (success, failed, pending, already terminal) gives 200.
C23_ResponseFollowsOutcome ==
    [][(hook.pc \in {"finalize", "mark"} /\ hook' # hook
        /\ json_loads(hook.body).event \in allowed_events) =>
          /\ (hook.pc = "finalize" /\ hook'.pc = "done") => hook'.status >= 400
          /\ hook.pc = "mark" =>
                IF hook.result.api_status = 400
                THEN hook'.status >= 400
                ELSE hook'.status = 200]_vars

\* C24: in one replay run every selected event is handled on its own: each
\* closing branch of the loop body (payment missing, gateway exception,
\* processed, not successful yet) writes attempts = selected attempts + 1 on
\* that event's row alone, adds one to exactly one counter and goes on to the
\* next selected row whatever the branch was; the rows selected are distinct,
\* so each is counted once, and at the end of the run
\* processed + skipped_missing_payment + failed is the number selected.
ReplayCloses == replay.pc \in {"missing", "error", "mark"} /\ replay' # replay

ReplayCounted(r) ==
    /\ CountsTotal(r) = r.i - 1
    /\ r.pc = "done" => CountsTotal(r) = Len(r.batch)
    /\ r.pc # "done" => r.i \in 1..Len(r.batch)
    /\ \A a, b \in 1..Len(r.batch) : r.batch[a].id = r.batch[b].id => a = b

C24_EveryEventHandledOnce ==
    [][/\ replay'.pc # "idle" => ReplayCounted(replay')
       /\ ReplayCloses =>
             /\ events'[ReplayEvt.id].attempts = ReplayEvt.attempts + 1
             /\ OtherRowsKept(ReplayEvt.id)
             /\ CountsTotal(replay') = CountsTotal(replay) + 1
             /\ replay'.processed >= replay.processed
             /\ replay'.skipped_missing_payment >= replay.skipped_missing_payment
             /\ replay'.failed >= replay.failed
             /\ replay'.batch = replay.batch
             /\ replay'.i = replay.i + 1
             /\ replay'.pc = IF replay.i < Len(replay.batch) THEN "check" ELSE "done"]_vars

\* A finished run of two events: the gateway call raised for the first, the
\* second was processed.
C24_Witness ==
    /\ replay.pc = "done"
    /\ Len(replay.batch) = 2
    /\ replay.failed = 1
    /\ replay.processed = 1
    /\ events[replay.batch[1].id].last_error = "gateway error"
    /\ events[replay.batch[2].id].processed

\* C25: when finalize_paystack_payment observes 'success' for a payment stored
\* as FAILED, the payment becomes SUCCESS and the effects of its target are
\* applied as for a payment that went from PENDING to SUCCESS: the wallet of
\* the vendor of a payment without order moves by payment.amount and the flag
\* is set, an order payment gets its payouts, a subscription not yet renewed
\* by the payment is renewed.
C25_FailedPromotedWithEffects ==
    [][(/\ payment # NoPayment
        /\ payment.status = PaymentStatus.FAILED
        /\ Finalize("success"))
       => (/\ is_success(payment')
           /\ (/\ payment.order = None
               /\ payment.vendor # None
               /\ has_wallet(DB, payment.vendor)
               /\ payment.payment_type = PaymentType.DEBIT
               /\ ~payment.vendor_credited_debited)
                 => (/\ payment'.vendor_credited_debited
                     /\ wallets'[payment.vendor] = wallets[payment.vendor] + payment.amount)
           /\ payment.order # None => payouts' # {}
           /\ (payment.subscription # None /\ ~payment.subscription_effects_applied)
                 => (/\ subscription' = [start_date |-> today,
                                         end_date |-> today + SubscriptionDays]
                     /\ payment'.subscription_effects_applied))]_vars

\* C26: the status of a stored payment only moves from PENDING to SUCCESS,
\* from PENDING to FAILED and from FAILED to SUCCESS: no step of any entry
\* point writes a FAILED payment back to PENDING.
C26_OnlyForwardTransitions ==
    [][(payment # NoPayment /\ payment' # NoPayment /\ payment'.status # payment.status)
       => <<payment.status, payment'.status>> \in
             {<<PaymentStatus.PENDING, PaymentStatus.SUCCESS>>,
              <<PaymentStatus.PENDING, PaymentStatus.FAILED>>,
              <<PaymentStatus.FAILED, PaymentStatus.SUCCESS>>}]_vars

\* C27: the Payment row created by payment initiation has at most one of
\* order, booking and subscription set, whatever the request names.
TargetsSet(p) ==
    (IF p.order # None THEN 1 ELSE 0) + (IF p.booking # None THEN 1 ELSE 0)
        + (IF p.subscription # None THEN 1 ELSE 0)

C27_AtMostOneTarget == payment # NoPayment => TargetsSet(payment) <= 1

\* How many requests have credited the wallet for payout id.
CreditsOf(reqs, id) == Cardinality({k \in DOMAIN reqs : id \in reqs[k].credited})

IsSettled(rows, id) == \E r \in rows : r.id = id /\ r.is_settled

\* C28: for every Payout, is_settled goes from false to true at most once (a
\* settled payout is never stored as unsettled again) and the vendor wallet is
\* credited for it at most once, in every interleaving of single and bulk
\* approval requests.
C28_SettledAndCreditedOnce ==
    [][\A id \in PayoutIds :
          /\ IsSettled(payouts, id) => IsSettled(payouts', id)
          /\ CreditsOf(approvals', id) <= 1]_vars

\* The payouts of vendor v that are PENDING and not settled in the current state.
PendingOf(v) ==
    {r \in payouts : r.vendor = v /\ r.payout_status = "PENDING" /\ ~r.is_settled}

\* C29: a bulk-approve request selects exactly the payouts of its vendor that
\* are PENDING and not settled, and changes nothing while selecting; when it
\* applies, the rows it holds are still stored as it read them (PENDING,
\* unsettled, of that vendor), each of them becomes APPROVED and settled and
\* is credited by it, the vendor's wallet grows by the sum of their amounts,
\* and every other payout (REJECTED, settled, of another vendor) and every
\* other wallet is left unchanged.
C29_BulkApprovesOnlyPending ==
    [][\A k \in DOMAIN approvals :
          (approvals[k].action = "bulk" /\ approvals'[k] # approvals[k]) =>
             LET a == approvals[k]
                 b == approvals'[k]
             IN /\ a.pc = "start" =>
                      /\ b.rows = PendingOf(a.vendor_id)
                      /\ b.credited = {}
                      /\ payouts' = payouts
                      /\ wallets' = wallets
                /\ a.pc = "locked" =>
                      /\ b.pc = "done"
                      /\ b.status = 200
                      /\ a.rows \subseteq PendingOf(a.vendor_id)
                      /\ b.credited = {r.id : r \in a.rows}
                      /\ \A r \in payouts : r \notin a.rows => r \in payouts'
                      /\ \A r \in a.rows :
                            [r EXCEPT !.payout_status = "APPROVED", !.is_settled = TRUE] \in payouts'
                      /\ Cardinality(payouts') = Cardinality(payouts)
                      /\ \A v \in Vendors :
                            wallets'[v] = wallets[v]
                               + (IF v = a.vendor_id THEN SumAmounts(a.rows) ELSE 0)]_vars

\* A bulk request for v1 has approved the earlier payout alone, the payout of
\* the paid order having been rejected before: that one is still REJECTED,
\* unsettled and credited by nobody.
C29_Witness ==
    /\ \E k \in DOMAIN approvals :
          /\ approvals[k].action = "bulk"
          /\ approvals[k].vendor_id = "v1"
          /\ approvals[k].pc = "done"
          /\ approvals[k].credited = {3}
    /\ \E r \in payouts : r.id = 1 /\ r.payout_status = "REJECTED" /\ ~r.is_settled
    /\ CreditsOf(approvals, 1) = 0

\* The stored payment is a cashout whose wallet debit has not been recorded.
OpenCashout ==
    /\ payment # NoPayment
    /\ payment.payment_type = PaymentType.CREDIT
    /\ ~payment.vendor_credited_debited

NotApplied ==
    /\ wallets' = wallets
    /\ ~payment'.vendor_credited_debited

\* C30: when the wallet debit of a cashout payment fails for insufficient
\* balance, the payment is not marked as applied and no balance changes, on
\* each path: the wallet block of the effect applier run on the stored row
\* whose wallet does not cover the amount; the wallet statement of
\* execute_momo_transaction whose Wallet instance does not cover the amount;
\* the post-save hook run by a status poll's save.
C30_FailedDebitNotMarked ==
    /\ [](OpenCashout /\ ~debit_wallet(wallets[payment.vendor], payment.amount).ok =>
             LET r == apply_wallet_effect(DB, payment)
             IN /\ r.db.wallets = wallets
                /\ ~r.inst.vendor_credited_debited
                /\ ~r.db.payment.vendor_credited_debited)
    /\ [][OpenCashout =>
             /\ (/\ momo.pc = "effects"
                 /\ momo' # momo
                 /\ ~debit_wallet(momo.balance, momo.inst.amount).ok)
                   => (NotApplied /\ momo'.pc = "done")
             /\ (PollHook /\ ~debit_wallet(wallets[payment.vendor], payment.amount).ok)
                   => NotApplied]_vars

\* The wallet statement of the MoMo call has failed on a SUCCESS cashout and
\* a status poll has gone through its save and hook: the flag is still false
\* and the balance, below the amount, is what it was.
C30_Witness ==
    /\ OpenCashout
    /\ is_success(payment)
    /\ momo.pc = "done"
    /\ pollsStarted >= 1
    /\ polls = EmptyBag
    /\ wallets = balance0
    /\ wallets["v1"] < payment.amount

\* The PayoutItem rows of payout p.
ItemsOf(p) == {r \in payoutItems : r.payout = p.id}

RECURSIVE SumLineTotals(_)
SumLineTotals(rows) ==
    IF rows = {} THEN 0
    ELSE LET r == CHOOSE x \in rows : TRUE
         IN r.line_total + SumLineTotals(rows \ {r})

\* C31: a PayoutItem is immutable once created: no later fan-out, product
\* price change or save of the order line changes or removes a stored row
\* (payout, order_item, product, quantity, unit_price, line_total).
C31_PayoutItemImmutable ==
    [][\A r \in payoutItems : r \in payoutItems']_vars

\* Fan-out has run again after a line changed: the payout carries the new
\* total while the item still shows the quantity, unit price and line total
\* captured the first time.
C31_Witness ==
    \E r \in payoutItems, p \in payouts :
        /\ p.id = r.payout
        /\ order.items[r.order_item].price # r.line_total
        /\ order.items[r.order_item].quantity # r.quantity
        /\ order.items[r.order_item].product_price # r.unit_price
        /\ p.amount = vendor_totals(order, p.vendor)
        /\ p.amount # SumLineTotals(ItemsOf(p))

\* C35: in every reachable state each Payout's amount is the sum of line_total
\* over its PayoutItems, also after fan-out has run again following a change
\* of an order line's price or quantity.
C35_AmountIsSumOfItems ==
    \A p \in payouts : p.amount = SumLineTotals(ItemsOf(p))

\* C34: when execute_momo_transaction finishes a successful DEBIT payment for a
\* subscription, the subscription has been renewed from today and the payment's
\* subscription_effects_applied is true.
MomoReturns == momo.pc # "done" /\ momo'.pc = "done"

C34_MomoAppliesSubscriptionEffects ==
    [][(/\ MomoReturns
        /\ payment'.subscription # None
        /\ payment'.payment_type = PaymentType.DEBIT
        /\ payment'.status = PaymentStatus.SUCCESS)
       => (/\ payment'.subscription_effects_applied
           /\ subscription'.start_date # 0
           /\ subscription'.end_date = subscription'.start_date + SubscriptionDays)]_vars

\* C36: a payout whose payout_status is REJECTED is not settled by any step
\* and no step credits the vendor wallet for it.
C36_RejectedNeverSettled ==
    [][\A r \in payouts :
          r.payout_status = "REJECTED" /\ ~r.is_settled
          => /\ ~IsSettled(payouts', r.id)
             /\ CreditsOf(approvals', r.id) = CreditsOf(approvals, r.id)]_vars

\* The amounts the provider disbursed for the requests in S.
RECURSIVE Disbursed(_)
Disbursed(S) ==
    IF S = {} THEN 0
    ELSE LET k == CHOOSE x \in S : TRUE
         IN (IF cashouts[k].transaction_is_successful THEN cashouts[k].amount ELSE 0)
            + Disbursed(S \ {k})

AllCashoutsDone == \A k \in DOMAIN cashouts : cashouts[k].pc = "done"

\* C37: once the concurrent cashout requests of a vendor have returned, the
\* amounts disbursed through successful cashouts add up to what was taken out
\* of the vendor's wallet; in particular no more is disbursed than the wallet
\* held.
C37_DisbursedEqualsDebited ==
    AllCashoutsDone /\ Len(cashouts) > 0 =>
        /\ Disbursed(DOMAIN cashouts) = balance0["v1"] - wallets["v1"]
        /\ Disbursed(DOMAIN cashouts) <= balance0["v1"]

\* C38: the attempts counter of a queued event never decreases, and every
\* reconciliation attempt a replay run closes for an event raises the stored
\* counter of that event by exactly one, whatever the webhook handler wrote to
\* the row in between.
C38_AttemptsCountEveryAttempt ==
    [][/\ \A j \in DOMAIN events : events'[j].attempts >= events[j].attempts
       /\ ReplayCloses =>
             events'[ReplayEvt.id].attempts = events[ReplayEvt.id].attempts + 1]_vars

\* C39: under fairness, a queued event whose local Payment has been created is
\* eventually marked processed, also when the Payment was created after the
\* event had been replayed while it was missing.
C39_QueuedEventEventuallyProcessed ==
    \A j \in 1..NumHooks :
        (j \in DOMAIN events /\ ~events[j].processed /\ payment_exists(DB, Reference))
            ~> (j \in DOMAIN events /\ events[j].processed)

\* C33: when a bulk approval finds that the vendor of one of the pending
\* payouts it selected has no wallet, it answers with an error, and it changes
\* no payout and credits no wallet.
BulkMissingWallet(k) ==
    /\ approvals[k].pc = "locked"
    /\ \E r \in approvals[k].rows : ~has_wallet(DB, r.vendor)

C33_BulkAllOrNothing ==
    [][\A k \in DOMAIN approvals :
          BulkMissingWallet(k) /\ approvals'[k] # approvals[k]
          => /\ approvals'[k].pc = "done"
             /\ approvals'[k].status = 400
             /\ approvals'[k].credited = {}
             /\ payouts' = payouts
             /\ wallets' = wallets]_vars

C33_Witness ==
    \E k \in DOMAIN approvals :
        /\ approvals[k].action = "bulk"
        /\ approvals[k].pc = "done"
        /\ approvals[k].status = 400
        /\ select_pending(payouts, approvals[k].vendor_id) # {}

\* C32: in finalize_paystack_payment the gateway verify call is over before
\* the row lock is taken (the call that takes the lock has made its one
\* gateway call and holds a usable answer), the call makes no gateway call
\* while it holds the lock, and the step taken under the lock is the local
\* status transition with the effect application, after which the lock is
\* released.
C32_VerifyOutsideLock ==
    [][\A k \in DOMAIN finalizes :
          LET c == finalizes[k]
              n == finalizes'[k]
          IN /\ (~holds_lock(c) /\ holds_lock(n)) =>
                   /\ c.gateway_calls = 1
                   /\ c.verify \in {"success", "failed", "abandoned"}
                   /\ UNCHANGED <<payment, wallets, subscription, order, payouts, payoutItems>>
             /\ (holds_lock(c) \/ holds_lock(n)) => n.gateway_calls = c.gateway_calls
             /\ n.gateway_calls # c.gateway_calls => ~holds_lock(c) /\ ~holds_lock(n)
             /\ (holds_lock(c) /\ n # c) =>
                   /\ ~holds_lock(n)
                   /\ verifyCalls' = verifyCalls
                   /\ DB' = finalize_paystack_payment(DB, c.verify, today).db]_vars

\* Both calls are over: one took the lock after the gateway answered
\* 'success' and made the payment SUCCESS, having called the gateway once.
C32_Witness ==
    /\ \A k \in DOMAIN finalizes : finalizes[k].pc = "done"
    /\ \E k \in DOMAIN finalizes :
          /\ finalizes[k].verify = "success"
          /\ finalizes[k].result.api_status = 200
          /\ finalizes[k].gateway_calls = 1
    /\ payment # NoPayment
    /\ is_success(payment)
    /\ verifyCalls = NumFinalizes

====
